---- MODULE Spec2Model ----
(***************************************************************************)
(* quantm12: the copy-trading fan-out (Spec), one call of fetchWithRetry   *)
(* (SpecRetry) and the normalisation of raw broker records into trades     *)
(* (SpecIngest).  Each specification moves its own variables and leaves    *)
(* the others parked.                                                      *)
(*                                                                         *)
(* Copy-trading fan-out.                                                   *)
(*                                                                         *)
(* POST /api/followers/execute-copy-trade                                  *)
(*   (src/src/app/api/followers/execute-copy-trade/route.ts)               *)
(* pushOrderToAccount / fetchWithRetry / buildAuthHeaders                  *)
(*   (src/unnamed/part_003, the module imported as '@/lib/alice')          *)
(*                                                                         *)
(* Every request is one invocation of the handler.  The handler is an      *)
(* async function: between two awaits another invocation may run, so each  *)
(* action below is the code between two awaits that touch shared state     *)
(* (the database tables and the broker).                                   *)
(*                                                                         *)
(* Encodings.  JavaScript falsy values are kept as the falsy value of the  *)
(* column's type: "" is a missing / NULL / empty string, 0 is a missing /  *)
(* NULL / zero number.  lot_multiplier is kept in tenths (LotScale), so    *)
(* 5 is 0.5 and 20 is 2.0; for the multipliers and quantities used here    *)
(* the double-precision product masterQty * lotMultiplier has the same     *)
(* floor as the exact product.                                             *)
(***************************************************************************)
EXTENDS Integers, Sequences, FiniteSets, Bags, TLC

\* ------------------------------------------------------------------ bounds
MaxMasterQty == 10          \* largest master quantity a request carries
MaxAccepted  == 2           \* broker-side counter of accepted orders per key is capped here

\* ------------------------------------------------------- program constants
DefaultRetries     == 3     \* fetchWithRetry(url, options, retries = 3, ...)
DefaultBackoff     == 500   \* fetchWithRetry(..., backoff = 500), milliseconds
DefaultLotTenths   == 10    \* follower.lot_multiplier || 1   (1.0 in tenths)
DefaultMaxQty      == 1000  \* follower.max_order_quantity || 1000
LotScale           == 10    \* lot_multiplier is held in tenths

\* ------------------------------------------------------------ environment
Invocations == {1, 2}                  \* requests the server handles
Followers   == <<"f1", "f2">>          \* rows of table followers, in table order
FollowerIds == {Followers[k] : k \in 1..Len(Followers)}
TradeIds    == {"t1", "t2"}

\* process.env as read by pushOrderToAccount
EnvApiKey        == "MASTER_KEY"
EnvApiSecret     == "MASTER_SECRET"
EnvOrderEndpoint == "https://broker/orders"
EnvAuthMethod    == ""

\* .alice.tokens.json: accountId -> token
TokensFile == [a \in {"Master"} |-> "MASTER_TOKEN"]


\* ------------------------------------------------------------------ state
VARIABLES
  followers,              \* followers LEFT JOIN follower_credentials, one row per follower id
  copied_trade_history,   \* the duplicate-prevention ledger: a bag of rows
  copy_trades,            \* the outcome log: a set of rows (id = copyTradeId_followerId)
  brokerAccepted,         \* broker side: number of orders accepted per <<tradeId, followerId>>
  dbFaulty,               \* TRUE when a db.query may throw
  maxInFlight,            \* number of requests the server handles at the same time
  pc,                     \* per invocation: idle, lookup, push, record, done
  req,                    \* per invocation: the request body (read when the request arrives)
  flist,                  \* per invocation: const followers (the query result)
  idx,                    \* per invocation: position of the for..of loop in flist
  attempt,                \* per invocation: fetchWithRetry's attempt
  order,                  \* per invocation: the order POST being sent (payload and headers)
  orderResponse,          \* per invocation: the parsed broker response
  results,                \* per invocation: const results = []
  summary,                \* per invocation: successCount, failedCount, skippedDuplicateCount
  httpStatus,             \* per invocation: status of the response sent, 0 while running
  touched,                \* per invocation: kinds of external operation performed so far
  posted,                 \* per invocation: followers for which an order POST was sent
  priorDone,              \* per invocation: invocations that had finished when it started
  orderEndpoint,          \* process.env.ALICE_ORDER_ENDPOINT, "" when not set
  priorDisabled,          \* per invocation: followers switched off by the toggle when it started
  \* one call of fetchWithRetry, followed attempt by attempt
  fwPc,                   \* idle, fetching, waiting, returned, thrown
  fwRetries,              \* parameter retries
  fwBackoff,              \* parameter backoff (ms)
  fwAttempt,              \* let attempt
  fwLog,                  \* what each fetch(url, options) did, in call order
  fwWaits,                \* the delays handed to setTimeout, in order
  fwClock,                \* logical time (ms) since the call started
  fwRes,                  \* the value returned to the caller
  fwErr,                  \* the value thrown to the caller
  \* trade ingestion: a raw batch normalised by each path, cycle after cycle
  serverTz,               \* the server's time zone, minutes east of UTC
  wallClock,              \* the server's clock (seconds since the Unix epoch)
  payload,                \* the raw records the broker returns
  ingested,               \* per normalisation path: the batches it produced, one per cycle
  \* the copy-trading toggle and the OAuth-token save
  follower_consents,      \* table follower_consents: a bag of rows
  consentKeyed,           \* TRUE when the table refuses a second row for a follower_id
  adReq,                  \* per admin request: the request body
  adPc,                   \* per admin request: idle, exists, consent, update, insert, reread, done
  adStatus,               \* per admin request: status of the response sent, 0 while running
  \* one call of getTradesForAccount
  gtPc,                   \* idle, orders, trades, returned, thrown
  gtAccount,              \* parameter accountId, "" when not passed
  gtCalls,                \* the endpoints handed to fetchWithRetry, in call order
  gtOut                   \* the list returned to the caller

fanoutVars == << followers, copied_trade_history, copy_trades, brokerAccepted, dbFaulty, maxInFlight,
                 pc, req, flist, idx, attempt, order, orderResponse, results, summary, httpStatus,
                 touched, posted, priorDone, orderEndpoint, priorDisabled >>

retryVars == << fwPc, fwRetries, fwBackoff, fwAttempt, fwLog, fwWaits, fwClock, fwRes, fwErr >>

normVars == << serverTz, wallClock, payload, ingested >>

adminVars == << follower_consents, consentKeyed, adReq, adPc, adStatus >>

tradesVars == << gtPc, gtAccount, gtCalls, gtOut >>

vars == << fanoutVars, retryVars, normVars, adminVars, tradesVars >>

\* ------------------------------------------------------- follower directory
\* One row of: SELECT f.id, fc.client_id, fc.api_key, fc.lot_multiplier,
\*             fc.max_order_quantity, fc.copy_trading_enabled (and f.status, used in WHERE)
FollowerRow(status, enabled, lot, maxq, key, client) ==
  [ status |-> status, copy_trading_enabled |-> enabled, lot_multiplier |-> lot,
    max_order_quantity |-> maxq, api_key |-> key, client_id |-> client ]

OwnKey(f)    == f \o "_KEY"
OwnClient(f) == f \o "_CLIENT"

\* the directories the model starts from; every credential stored is the follower's own
Directories ==
  { \* multipliers 0.5 and 2.0, caps 100 and 15
    [ f \in FollowerIds |->
        IF f = "f1" THEN FollowerRow("active", TRUE, 5,  100, OwnKey(f), OwnClient(f))
                    ELSE FollowerRow("active", TRUE, 20, 15,  OwnKey(f), OwnClient(f)) ],
    \* multiplier 0.1; a paused follower whose client_id is NULL
    [ f \in FollowerIds |->
        IF f = "f1" THEN FollowerRow("active", TRUE, 1,  100, OwnKey(f), OwnClient(f))
                    ELSE FollowerRow("paused", TRUE, 10, 100, OwnKey(f), "") ],
    \* copy trading disabled; NULL multiplier, cap and api_key
    [ f \in FollowerIds |->
        IF f = "f1" THEN FollowerRow("active", FALSE, 10, 100, OwnKey(f), OwnClient(f))
                    ELSE FollowerRow("active", TRUE,  0,  0,   "",        OwnClient(f)) ] }

\* ----------------------------------------------------------------- requests
Request(tradeId, symbol, side, masterQty, price, followerId, listenerFollowers) ==
  [ tradeId |-> tradeId, symbol |-> symbol, side |-> side, masterQty |-> masterQty,
    price |-> price, followerId |-> followerId, listenerFollowers |-> listenerFollowers ]

\* {} is an absent listenerFollowers; an empty array is not among the requests
\* single follower id, the explicit list of all ids, all followers
Selectors ==
  { <<f, {}>> : f \in FollowerIds } \cup { <<"", FollowerIds>>, <<"", {}>> }

ValidRequests ==
  { Request(t, "INFY", "BUY", q, 100, s[1], s[2]) :
      t \in TradeIds, q \in {1, MaxMasterQty}, s \in Selectors }

\* requests in which one required field is missing (or a falsy 0)
InvalidRequests ==
  { Request("",   "INFY", "BUY", MaxMasterQty, 100, "", {}),
    Request("t1", "",     "BUY", MaxMasterQty, 100, "", {}),
    Request("t1", "INFY", "",    MaxMasterQty, 100, "", {}),
    Request("t1", "INFY", "BUY", 0,            100, "", {}),
    Request("t1", "INFY", "BUY", MaxMasterQty, 0,   "", {}) }

Requests == ValidRequests \cup InvalidRequests

\* The requests of a run.  Trade ids are named in order of first use, so the
\* first request carries t1 (or none).
Workloads ==
  { w \in [Invocations -> Requests] : w[1].tradeId # "t2" }

\* the workloads run with overlapping invocations: the same master trade, sent
\* again while the first request is still being handled
OverlapWorkloads ==
  { w \in Workloads : \A i \in Invocations :
      /\ w[i] \in ValidRequests
      /\ w[i].tradeId = w[1].tradeId
      /\ w[i].masterQty = MaxMasterQty }

\* ------------------------------------- followers-management.tsx, the dialog
\* Date.now() and Math.random().toString(36).substr(2, 9) as texts
DialogClock  == << "1700000000000", "1700000000001" >>
DialogRandom == { "k3j9x2m1q", "a8f0z7c5d" }

\* line 385: `master_${Date.now()}_${Math.random().toString(36).substr(2, 9)}`
DialogTradeId(now, rnd) == "master_" \o now \o "_" \o rnd

DialogTradeIds ==
  { DialogTradeId(DialogClock[n], rnd) : n \in DOMAIN DialogClock, rnd \in DialogRandom }

\* the trade details typed into the dialog (all filled in)
FormData == [ symbol |-> "INFY", side |-> "BUY", masterQty |-> MaxMasterQty, price |-> 100 ]

\* handleExecute lines 383-399: the body of the POST it sends
handleExecute(formData, selectedFollowers, now, rnd) ==
  Request(DialogTradeId(now, rnd), formData.symbol, formData.side, formData.masterQty,
          formData.price, "", selectedFollowers)

\* the dialog executed once per invocation with the same details and the same
\* selected followers; the clock does not run backwards
DialogWorkloads ==
  { [ i \in Invocations |-> handleExecute(FormData, sel, DialogClock[nows[i]], rnds[i]) ] :
      sel \in { {"f1"}, FollowerIds },
      nows \in { n \in [ Invocations -> DOMAIN DialogClock ] :
                   \A i, j \in Invocations : i < j => n[i] <= n[j] },
      rnds \in [ Invocations -> DialogRandom ] }

\* ------------------------------------------------------------ route.ts POST
\* the check with one of the four fields forgotten
FieldsPresent_noPrice(r) == r.symbol # "" /\ r.side # "" /\ r.masterQty # 0

\* if (!symbol || !side || !masterQty || !price) -> 400
FieldsPresent(r) == r.symbol # "" /\ r.side # "" /\ r.masterQty # 0 /\ r.price # 0

\* if (!tradeId) -> 400
TradeIdPresent(r) == r.tradeId # ""

\* the WHERE clause of the three follower queries
Selected(r, f, row) ==
  IF r.followerId # ""
    THEN f = r.followerId /\ row.copy_trading_enabled
    ELSE IF r.listenerFollowers # {}
      THEN f \in r.listenerFollowers /\ row.copy_trading_enabled
      ELSE row.status = "active" /\ row.copy_trading_enabled

\* one row of the query result: the selected columns, as read at query time
QueryRow(f, row) ==
  [ id |-> f, lot_multiplier |-> row.lot_multiplier,
    max_order_quantity |-> row.max_order_quantity,
    api_key |-> row.api_key, client_id |-> row.client_id ]

RECURSIVE RowsFrom(_, _, _)
RowsFrom(k, r, dir) ==
  IF k > Len(Followers) THEN << >>
  ELSE LET f == Followers[k] IN
       (IF Selected(r, f, dir[f]) THEN << QueryRow(f, dir[f]) >> ELSE << >>)
         \o RowsFrom(k + 1, r, dir)

\* followers = result || []  (rows in table order)
SelectFollowers(r, dir) == RowsFrom(1, r, dir)

\* the lookup as it would be with the follower left out of the WHERE clause's
\* parameters (the trade id bound to both placeholders)
existingCopy_wrongKey(ledger, tradeId, f) ==
  { row \in BagToSet(ledger) : row.master_trade_id = tradeId /\ row.follower_id = tradeId }

\* SELECT id FROM copied_trade_history WHERE master_trade_id = ? AND follower_id = ?
existingCopy(ledger, tradeId, f) ==
  { row \in BagToSet(ledger) : row.master_trade_id = tradeId /\ row.follower_id = f }

\* the quantity without the clamp to maxQty
followerQty_noClamp(masterQty, row) ==
  LET lotMultiplier == IF row.lot_multiplier = 0 THEN DefaultLotTenths ELSE row.lot_multiplier
  IN  (masterQty * lotMultiplier) \div LotScale

\* lines 142-148: lotMultiplier, maxQty, Math.floor, the clamp
followerQty(masterQty, row) ==
  LET lotMultiplier == IF row.lot_multiplier = 0 THEN DefaultLotTenths ELSE row.lot_multiplier
      maxQty        == IF row.max_order_quantity = 0 THEN DefaultMaxQty ELSE row.max_order_quantity
      q             == (masterQty * lotMultiplier) \div LotScale
  IN  IF q > maxQty THEN maxQty ELSE q


\* the zero-quantity check left out
qtyTooSmall_never(q) == FALSE

\* if (followerQty === 0) -> SKIPPED
qtyTooSmall(q) == q = 0

\* ------------------------------------------------- part_003 (lib/alice.ts)
\* getAccountToken(accountId): tokens[accountId], "" when undefined
getAccountToken(accountId) ==
  IF accountId \in DOMAIN TokensFile THEN TokensFile[accountId] ELSE ""

\* buildAuthHeaders: the bearer token takes precedence, then the auth method
buildAuthHeaders(apiKey, apiSecret, method, bearerToken) ==
  IF bearerToken # ""
    THEN [ scheme |-> "bearer", key |-> bearerToken, secret |-> "" ]
    ELSE IF method = "basic"
      THEN [ scheme |-> "basic", key |-> apiKey, secret |-> apiSecret ]
      ELSE IF method = "hmac"
        THEN [ scheme |-> "hmac", key |-> apiKey, secret |-> apiSecret ]
        ELSE [ scheme |-> "headers", key |-> apiKey, secret |-> apiSecret ]

\* the check for the endpoint left out
endpointMissing_never(e) == FALSE

\* pushOrderToAccount line 501: if (!orderEndpoint)
endpointMissing(e) == e = ""

\* a || b || ''
OrElse(a, b) == IF a # "" THEN a ELSE b

\* pushOrderToAccount lines 505-510: token, apiKey, apiSecret, headers.
\* follower = { apiKey: follower.api_key, clientId: follower.client_id }, no sessionToken
orderHeaders(accountId, row) ==
  LET token     == OrElse("", getAccountToken(accountId))
      apiKey    == OrElse(row.api_key, OrElse(EnvApiKey, ""))
      apiSecret == OrElse(row.client_id, OrElse(EnvApiSecret, ""))
  IN  buildAuthHeaders(apiKey, apiSecret, EnvAuthMethod, token)

\* pushOrderToAccount lines 512-519: the POST body.  The route passes
\* { symbol, side, quantity, price, productType, orderType }: no type, no id.
orderBody(r, qty) ==
  [ symbol          |-> r.symbol,
    transactionType |-> IF r.side = "SELL" THEN "SELL" ELSE "BUY",
    quantity        |-> qty,
    orderType       |-> "MARKET",
    price           |-> r.price,
    clientOrderId   |-> "" ]

NoOrder == [ follower |-> "", body |-> orderBody(Request("", "", "", 0, 0, "", {}), 0),
             headers |-> buildAuthHeaders("", "", "", "") ]

\* --------------------------------------------------------------- the tables
\* INSERT INTO copied_trade_history (...).  The table's definition is not part
\* of the sources; its key (master_trade_id, follower_id) is unique, so the
\* insert of a second row under a key is refused (the query throws).
LedgerRow(r, f, qty) ==
  [ master_trade_id |-> r.tradeId, follower_id |-> f, symbol |-> r.symbol,
    side |-> r.side, master_qty |-> r.masterQty, follower_qty |-> qty, price |-> r.price ]

LedgerHasKey(ledger, tradeId, f) ==
  \E row \in BagToSet(ledger) : row.master_trade_id = tradeId /\ row.follower_id = f

\* the insert as it would be on a table without the unique key
LedgerInsertOk_noKey(ledger, row) == TRUE

LedgerInsertOk(ledger, row) == ~ LedgerHasKey(ledger, row.master_trade_id, row.follower_id)

\* the insert that overwrites the table
LedgerInsert_replace(ledger, row) == SetToBag({row})

LedgerInsert(ledger, row) == ledger (+) SetToBag({row})

\* INSERT INTO copy_trades (...): id = copyTradeId_followerId, one copyTradeId per invocation
CopyTradeRow(i, f, qty, status) ==
  [ copyTradeId |-> i, follower_id |-> f, follower_qty |-> qty, status |-> status ]

\* results.push({ followerId, status, reason / followerQty })
Result(f, status, reason, qty) ==
  [ followerId |-> f, status |-> status, reason |-> reason, followerQty |-> qty ]

\* outcomes of one db.query
DbOutcomes == IF dbFaulty THEN {"ok", "error"} ELSE {"ok"}

\* outcomes of one fetch(orderEndpoint, POST):
\*   accepted  2xx, the broker took the order, body carries ok / order_id
\*   refused   2xx, the broker did not take the order, body carries neither
\*   http_err  non-2xx, the broker did not take the order
\*   net_err   fetch throws, the request never reached the broker
\*   lost      fetch throws after the broker took the order (response lost)
FetchOutcomes == {"accepted", "refused", "http_err", "net_err", "lost"}


\* ---------------------------------------------------------- fetchWithRetry
\* what one fetch(url, options) can do: resolve with a Response, or throw
Response(status, body, readable) ==
  [ kind |-> "response", status |-> status, body |-> body, readable |-> readable, name |-> "" ]

Exception(name) ==
  [ kind |-> "exception", status |-> 0, body |-> "", readable |-> FALSE, name |-> name ]

NoResponse == [ kind |-> "", status |-> 0, body |-> "", readable |-> FALSE, name |-> "" ]

OkResponses   == { Response(200, "[]", TRUE) }
FailResponses == { Response(st, "down", rd) : st \in {404, 500}, rd \in BOOLEAN }
Exceptions    == { Exception("ECONNRESET") }
FetchResults  == OkResponses \cup FailResponses \cup Exceptions

\* any response at all taken as a success
ok_anyResponse(res) == res.kind = "response"

\* Response.ok
ok(res) == res.kind = "response" /\ res.status >= 200 /\ res.status <= 299

\* await res.text().catch(() => '')
text(res) == IF res.readable THEN res.body ELSE ""

\* an Error value: message `HTTP ${status}: ${text}` is <<"HTTP", status, text>>,
\* the message of a thrown network exception is <<name>>
NoError == [ message |-> << >> ]

httpError_noBody(res) == [ message |-> << "HTTP", res.status, "" >> ]

\* new Error(`HTTP ${res.status}: ${text}`)
httpError(res) == [ message |-> << "HTTP", res.status, text(res) >> ]

\* the err caught in the loop for one failed fetch
caught(r) == IF r.kind = "response" THEN httpError(r) ELSE [ message |-> << r.name >> ]

backoffDelay_flat(backoff, att) == backoff

\* backoff * Math.pow(2, attempt)
backoffDelay(backoff, att) == backoff * 2^att

lastAttempt_early(att, retries) == att + 1 = retries

\* fetchWithRetry: if (attempt === retries) throw err
lastAttempt(att, retries) == att = retries

\* if (orderResponse?.ok || orderResponse?.order_id)
orderAccepted(resp) == resp = "accepted"

\* ------------------------------------------------- the parts not running
\* no call of fetchWithRetry is being followed
RetryParked ==
  /\ fwPc = "parked"
  /\ fwRetries = DefaultRetries
  /\ fwBackoff = DefaultBackoff
  /\ fwAttempt = 0
  /\ fwLog = << >>
  /\ fwWaits = << >>
  /\ fwClock = 0
  /\ fwRes = NoResponse
  /\ fwErr = NoError

\* no batch is being ingested
IngestParked ==
  /\ serverTz = 0
  /\ wallClock = 0
  /\ payload = << >>
  /\ ingested = << >>

\* lines 115-117: let successCount = 0, skippedDuplicateCount = 0, failedCount = 0
NoCounts == [ successCount |-> 0, failedCount |-> 0, skippedDuplicateCount |-> 0 ]

\* ------------------------------- copy-trading toggle and OAuth-token save
AdminIds == {1, 2}                     \* admin requests the server handles

\* a request body: enabled is "true", "false" or "undefined"; accessToken is
\* "" when missing
AdminRequest(kind, followerId, enabled, accessToken) ==
  [ kind |-> kind, followerId |-> followerId, enabled |-> enabled, accessToken |-> accessToken ]

AdminRequests ==
  { AdminRequest("toggle", "f1", "true",  ""),
    AdminRequest("toggle", "f1", "false", ""),
    AdminRequest("toggle", "",   "false", ""),
    AdminRequest("toggle", "fx", "false", ""),
    AdminRequest("save",   "f1", "",      "TOKEN"),
    AdminRequest("save",   "f1", "",      "") }

\* toggle line 14: if (!followerId || enabled === undefined);
\* token save: if (!followerId || !accessToken)
AdminFieldsPresent(r) ==
  /\ r.followerId # ""
  /\ IF r.kind = "toggle" THEN r.enabled # "undefined" ELSE r.accessToken # ""

\* SELECT id FROM followers WHERE id = ?
FollowerExists(f) == f \in DOMAIN followers

\* one row of follower_consents
ConsentRow(f, replication, active) ==
  [ follower_id |-> f, trade_replication_enabled |-> replication, copy_trading_active |-> active ]

\* SELECT id FROM follower_consents WHERE follower_id = ?
existingConsent(table, f) == { row \in BagToSet(table) : row.follower_id = f }

\* the row each route inserts: [consentId, followerId, enabled ? 1 : 0, enabled ? 1 : 0]
\* in the toggle, [consentId, followerId, true, true] in the token save
NewConsent(r) ==
  IF r.kind = "toggle"
    THEN ConsentRow(r.followerId, r.enabled = "true", r.enabled = "true")
    ELSE ConsentRow(r.followerId, TRUE, TRUE)

\* INSERT INTO follower_consents (...)
ConsentInsert(table, row) == table (+) SetToBag({row})

\* the insert is refused when the table holds one row per follower_id and the
\* follower has a row
ConsentInsertOk(table, row) == ~ consentKeyed \/ existingConsent(table, row.follower_id) = {}

\* UPDATE follower_consents SET copy_trading_active = ? WHERE follower_id = ?
ConsentUpdate(table, f, active) ==
  LET kept  == { x \in BagToSet(table) : x.follower_id # f }
      moved == { [ x EXCEPT !.copy_trading_active = active ] : x \in existingConsent(table, f) }
  IN [ y \in kept \cup moved |->
         IF y \in kept THEN table[y]
         ELSE CopiesIn([ y EXCEPT !.copy_trading_active = TRUE ], table)
                + CopiesIn([ y EXCEPT !.copy_trading_active = FALSE ], table) ]

\* the followers whose consent rows all say copy_trading_active = 0 while no
\* toggle for them is being handled
DisabledFollowers ==
  { f \in FollowerIds :
      /\ existingConsent(follower_consents, f) # {}
      /\ \A row \in existingConsent(follower_consents, f) : ~ row.copy_trading_active
      /\ \A a \in AdminIds : adReq[a].followerId = f => adPc[a] \in {"idle", "done"} }

\* no admin request is handled
AdminParked ==
  /\ follower_consents = EmptyBag
  /\ consentKeyed = FALSE
  /\ adReq = [ a \in AdminIds |-> AdminRequest("toggle", "", "undefined", "") ]
  /\ adPc = [ a \in AdminIds |-> "parked" ]
  /\ adStatus = [ a \in AdminIds |-> 0 ]

\* getTradesForAccount is not called
TradesParked ==
  /\ gtPc = "parked"
  /\ gtAccount = ""
  /\ gtCalls = << >>
  /\ gtOut = << >>

\* ------------------------------------------------------------------- Init
InitLocal ==
  /\ copied_trade_history = EmptyBag
  /\ copy_trades = {}
  /\ brokerAccepted = [ k \in (TradeIds \cup DialogTradeIds) \X FollowerIds |-> 0 ]
  /\ pc = [ i \in Invocations |-> "idle" ]
  /\ flist = [ i \in Invocations |-> << >> ]
  /\ idx = [ i \in Invocations |-> 1 ]
  /\ attempt = [ i \in Invocations |-> 0 ]
  /\ order = [ i \in Invocations |-> NoOrder ]
  /\ orderResponse = [ i \in Invocations |-> "" ]
  /\ results = [ i \in Invocations |-> << >> ]
  /\ summary = [ i \in Invocations |-> NoCounts ]
  /\ httpStatus = [ i \in Invocations |-> 0 ]
  /\ touched = [ i \in Invocations |-> {} ]
  /\ posted = [ i \in Invocations |-> {} ]
  /\ priorDone = [ i \in Invocations |-> {} ]
  /\ priorDisabled = [ i \in Invocations |-> {} ]

\* the database is up; requests are handled one after the other, or overlap
Init ==
  /\ InitLocal
  /\ followers \in Directories
  /\ dbFaulty = FALSE
  /\ orderEndpoint = EnvOrderEndpoint
  /\ \/ maxInFlight = 1 /\ req \in Workloads
     \/ maxInFlight = Cardinality(Invocations) /\ req \in OverlapWorkloads
  /\ RetryParked
  /\ IngestParked
  /\ AdminParked
  /\ TradesParked

\* ---------------------------------------------------------- handler pieces
\* return NextResponse.json(..., { status })
Respond(i, status) ==
  /\ pc' = [ pc EXCEPT ![i] = "done" ]
  /\ httpStatus' = [ httpStatus EXCEPT ![i] = status ]

\* the end of one iteration of for (const follower of followers): its locals go away
LeaveIteration(i) ==
  /\ attempt' = [ attempt EXCEPT ![i] = 0 ]
  /\ order' = [ order EXCEPT ![i] = NoOrder ]
  /\ orderResponse' = [ orderResponse EXCEPT ![i] = "" ]

\* results.push(...) followed by the next iteration, or by the summary
\* response after the last follower
PushResult(i, res, counter) ==
  /\ results' = [ results EXCEPT ![i] = Append(@, res) ]
  /\ summary' = [ summary EXCEPT ![i][counter] = @ + 1 ]
  /\ idx' = [ idx EXCEPT ![i] = @ + 1 ]
  /\ LeaveIteration(i)
  /\ IF idx[i] >= Len(flist[i])
       THEN Respond(i, 200)
       ELSE /\ pc' = [ pc EXCEPT ![i] = "lookup" ]
            /\ httpStatus' = httpStatus

\* the outer catch (error): 500, no summary
OuterCatch(i) ==
  /\ Respond(i, 500)
  /\ LeaveIteration(i)
  /\ UNCHANGED << results, summary, idx >>

\* the loop body without its own try / catch: the error reaches the outer catch
CatchFollower_abort(i, f, reason, d, kinds) ==
  /\ touched' = [ touched EXCEPT ![i] = @ \cup kinds ]
  /\ copy_trades' = copy_trades
  /\ OuterCatch(i)

\* catch (followerError): log FAILED to copy_trades, push FAILED.  The insert
\* is itself a db.query inside the inner catch: when it throws, the outer catch runs.
CatchFollower(i, f, reason, d, kinds) ==
  /\ touched' = [ touched EXCEPT ![i] = @ \cup kinds \cup {"audit_write"} ]
  /\ IF d = "ok"
       THEN /\ copy_trades' = copy_trades \cup { CopyTradeRow(i, f, 0, "FAILED") }
            /\ PushResult(i, Result(f, "FAILED", reason, 0), "failedCount")
       ELSE /\ copy_trades' = copy_trades
            /\ OuterCatch(i)

\* the follower query answered from a stale list instead of failing the call
LookupFailed_carryOn(i) ==
  /\ touched' = [ touched EXCEPT ![i] = @ \cup {"followers_read", "followers_error"} ]
  /\ flist' = [ flist EXCEPT ![i] = SelectFollowers(req[i], followers) ]
  /\ IF Len(SelectFollowers(req[i], followers)) = 0
       THEN Respond(i, 400)
       ELSE /\ pc' = [ pc EXCEPT ![i] = "lookup" ]
            /\ httpStatus' = httpStatus

\* no database (lines 41-47) or a follower query that throws (outer catch,
\* lines 287-293): 500 before any follower is looked at
LookupFailed(i) ==
  /\ touched' = [ touched EXCEPT ![i] = @ \cup {"followers_read", "followers_error"} ]
  /\ UNCHANGED flist
  /\ Respond(i, 500)

\* ---------------------------------------------------------------- actions
\* POST, lines 13-110: parse the body, validate, query the followers.
\* Invocations are numbered in the order in which their requests arrive.
Receive(i) ==
  /\ pc[i] = "idle"
  /\ \A j \in Invocations : j < i => pc[j] # "idle"
  /\ Cardinality({ j \in Invocations : pc[j] \notin {"idle", "done"} }) < maxInFlight
  /\ priorDone' = [ priorDone EXCEPT ![i] = { j \in Invocations : pc[j] = "done" } ]
  /\ UNCHANGED << retryVars, normVars, adminVars, tradesVars >>
  /\ priorDisabled' = [ priorDisabled EXCEPT ![i] = DisabledFollowers ]
  /\ UNCHANGED << followers, copied_trade_history, copy_trades, brokerAccepted, dbFaulty,
                  maxInFlight, req, attempt, order, orderResponse, results, summary, idx, posted,
                  orderEndpoint >>
  /\ IF ~ FieldsPresent(req[i]) \/ ~ TradeIdPresent(req[i])
       THEN /\ Respond(i, 400)
            /\ UNCHANGED << flist, touched >>
       ELSE \E d \in DbOutcomes :
              IF d = "error"
                   THEN LookupFailed(i)
                   ELSE LET fl == SelectFollowers(req[i], followers) IN
                        /\ touched' = [ touched EXCEPT ![i] = @ \cup {"followers_read"} ]
                        /\ flist' = [ flist EXCEPT ![i] = fl ]
                        /\ IF Len(fl) = 0
                             THEN Respond(i, 400)
                             ELSE /\ pc' = [ pc EXCEPT ![i] = "lookup" ]
                                  /\ httpStatus' = httpStatus

\* lines 120-172: the ledger check, the quantity, the order handed to pushOrderToAccount
Lookup(i) ==
  /\ pc[i] = "lookup"
  /\ LET follower == flist[i][idx[i]]
         f        == follower.id
         qty      == followerQty(req[i].masterQty, follower)
     IN \E d \in DbOutcomes, dc \in DbOutcomes :
          IF d = "error"
            THEN CatchFollower(i, f, "db error", dc, {"ledger_read"})
            ELSE IF existingCopy(copied_trade_history, req[i].tradeId, f) # {}
              THEN /\ dc = "ok"
                   /\ PushResult(i, Result(f, "SKIPPED", "duplicate", 0), "skippedDuplicateCount")
                   /\ touched' = [ touched EXCEPT ![i] = @ \cup {"ledger_read"} ]
                   /\ UNCHANGED copy_trades
              ELSE IF qtyTooSmall(qty)
                THEN /\ dc = "ok"
                     /\ PushResult(i, Result(f, "SKIPPED", "quantity too small", 0), "skippedDuplicateCount")
                     /\ touched' = [ touched EXCEPT ![i] = @ \cup {"ledger_read"} ]
                     /\ UNCHANGED copy_trades
                ELSE IF endpointMissing(orderEndpoint)
                  THEN CatchFollower(i, f, "not configured", dc, {"ledger_read"})
                  ELSE /\ dc = "ok"
                       /\ order' = [ order EXCEPT ![i] =
                            [ follower |-> f, body |-> orderBody(req[i], qty),
                              headers |-> orderHeaders(req[i].symbol, follower) ] ]
                       /\ attempt' = [ attempt EXCEPT ![i] = 0 ]
                       /\ pc' = [ pc EXCEPT ![i] = "push" ]
                       /\ touched' = [ touched EXCEPT ![i] = @ \cup {"ledger_read"} ]
                       /\ UNCHANGED << copy_trades, results, summary, idx, httpStatus, orderResponse >>
  /\ UNCHANGED << retryVars, normVars, adminVars, tradesVars >>
  /\ UNCHANGED << followers, copied_trade_history, brokerAccepted, dbFaulty, maxInFlight,
                  req, flist, posted, priorDone, orderEndpoint, priorDisabled >>

\* one pass of fetchWithRetry's loop inside pushOrderToAccount: one fetch
Fetch(i, o) ==
  /\ pc[i] = "push"
  /\ LET f   == order[i].follower
         key == << req[i].tradeId, f >>
         got == o \in {"accepted", "lost"}
     IN /\ got => brokerAccepted[key] < MaxAccepted
        /\ brokerAccepted' = IF got THEN [ brokerAccepted EXCEPT ![key] = @ + 1 ]
                                    ELSE brokerAccepted
        /\ posted' = [ posted EXCEPT ![i] = @ \cup {f} ]
        /\ IF o \in {"accepted", "refused"}
             THEN \* res.ok: return res; parsed = await res.json()
                  /\ orderResponse' = [ orderResponse EXCEPT ![i] = o ]
                  /\ pc' = [ pc EXCEPT ![i] = "record" ]
                  /\ touched' = [ touched EXCEPT ![i] = @ \cup {"broker"} ]
                  /\ UNCHANGED << attempt, order, copy_trades, results, summary, idx, httpStatus >>
             ELSE IF lastAttempt(attempt[i], DefaultRetries)
               THEN \* throw err: the route's catch (followerError)
                    \E dc \in DbOutcomes : CatchFollower(i, f, "fetch failed", dc, {"broker"})
               ELSE \* backoff, attempt++
                    /\ attempt' = [ attempt EXCEPT ![i] = @ + 1 ]
                    /\ touched' = [ touched EXCEPT ![i] = @ \cup {"broker"} ]
                    /\ UNCHANGED << order, orderResponse, copy_trades, results, summary, idx, pc, httpStatus >>
  /\ UNCHANGED << retryVars, normVars, adminVars, tradesVars >>
  /\ UNCHANGED << followers, copied_trade_history, dbFaulty, maxInFlight, req, flist, priorDone,
                  orderEndpoint, priorDisabled >>

\* lines 174-241: record the outcome of the order
Record(i) ==
  /\ pc[i] = "record"
  /\ LET f   == order[i].follower
         qty == order[i].body.quantity
         row == LedgerRow(req[i], f, qty)
     IN \E d1 \in DbOutcomes, d2 \in DbOutcomes, dc \in DbOutcomes :
          IF orderAccepted(orderResponse[i])
            THEN IF d1 = "error" \/ ~ LedgerInsertOk(copied_trade_history, row)
              THEN /\ d2 = "ok"
                   /\ copied_trade_history' = copied_trade_history
                   /\ CatchFollower(i, f, "ledger insert failed", dc, {"ledger_write"})
              ELSE /\ copied_trade_history' = LedgerInsert(copied_trade_history, row)
                   /\ IF d2 = "error"
                        THEN CatchFollower(i, f, "db error", dc, {"ledger_write"})
                        ELSE /\ dc = "ok"
                             /\ copy_trades' = copy_trades \cup { CopyTradeRow(i, f, qty, "SUCCESS") }
                             /\ touched' = [ touched EXCEPT ![i] = @ \cup {"ledger_write", "audit_write"} ]
                             /\ PushResult(i, Result(f, "SUCCESS", "", qty), "successCount")
            ELSE /\ d1 = "ok"
                 /\ copied_trade_history' = copied_trade_history
                 /\ IF d2 = "error"
                      THEN CatchFollower(i, f, "db error", dc, {})
                      ELSE /\ dc = "ok"
                           /\ copy_trades' = copy_trades \cup { CopyTradeRow(i, f, 0, "FAILED") }
                           /\ touched' = [ touched EXCEPT ![i] = @ \cup {"audit_write"} ]
                           /\ PushResult(i, Result(f, "FAILED", "Failed to push order", 0), "failedCount")
  /\ UNCHANGED << retryVars, normVars, adminVars, tradesVars >>
  /\ UNCHANGED << followers, brokerAccepted, dbFaulty, maxInFlight, req, flist, posted, priorDone,
                  orderEndpoint, priorDisabled >>

Next ==
  \/ \E i \in Invocations : Receive(i)
  \/ \E i \in Invocations : Lookup(i)
  \/ \E i \in Invocations, o \in FetchOutcomes : Fetch(i, o)
  \/ \E i \in Invocations : Record(i)

Spec == Init /\ [][Next]_vars

\* the same handler while the database may fail: every db.query may throw
\* (one valid request carrying the full master quantity, followed by requests
\* without a trade id)
FaultyWorkloads ==
  { w \in Workloads :
      /\ w[1] \in ValidRequests /\ w[1].masterQty = MaxMasterQty
      /\ \A i \in Invocations \ {1} : w[i] \in InvalidRequests /\ w[i].tradeId = "" }

InitFaulty ==
  /\ InitLocal
  /\ followers \in Directories
  /\ dbFaulty = TRUE
  /\ orderEndpoint = EnvOrderEndpoint
  /\ maxInFlight = 1
  /\ req \in FaultyWorkloads
  /\ RetryParked
  /\ IngestParked
  /\ AdminParked
  /\ TradesParked

SpecFaulty == InitFaulty /\ [][Next]_vars

\* ------------------------------------- the toggle and the token save, POST
\* both routes: the body is validated and the follower looked up
\* (toggle lines 11-41; token save part_002 101-129).  The token save then
\* writes oauth_tokens and follower_credentials.access_token (131-172), which
\* no query of the fan-out reads.
AdBegin(a) ==
  /\ adPc[a] = "idle"
  /\ \A b \in AdminIds : b < a => adPc[b] # "idle"
  /\ IF ~ AdminFieldsPresent(adReq[a])
       THEN /\ adPc' = [ adPc EXCEPT ![a] = "done" ]
            /\ adStatus' = [ adStatus EXCEPT ![a] = 400 ]
       ELSE IF ~ FollowerExists(adReq[a].followerId)
         THEN /\ adPc' = [ adPc EXCEPT ![a] = "done" ]
              /\ adStatus' = [ adStatus EXCEPT ![a] = 404 ]
         ELSE /\ adPc' = [ adPc EXCEPT ![a] = "consent" ]
              /\ adStatus' = adStatus
  /\ UNCHANGED << follower_consents, consentKeyed, adReq >>
  /\ UNCHANGED << fanoutVars, retryVars, normVars, tradesVars >>

\* SELECT id FROM follower_consents WHERE follower_id = ?
\* (toggle lines 43-48; token save part_002 174-180)
AdCheck(a) ==
  /\ adPc[a] = "consent"
  /\ IF existingConsent(follower_consents, adReq[a].followerId) # {}
       THEN IF adReq[a].kind = "toggle"
              THEN /\ adPc' = [ adPc EXCEPT ![a] = "update" ]
                   /\ adStatus' = adStatus
              ELSE /\ adPc' = [ adPc EXCEPT ![a] = "done" ]
                   /\ adStatus' = [ adStatus EXCEPT ![a] = 200 ]
       ELSE /\ adPc' = [ adPc EXCEPT ![a] = "insert" ]
            /\ adStatus' = adStatus
  /\ UNCHANGED << follower_consents, consentKeyed, adReq >>
  /\ UNCHANGED << fanoutVars, retryVars, normVars, tradesVars >>

\* the UPDATE (toggle 50-57) or the INSERT (toggle 59-69; token save 181-187)
\* and the response.  A refused insert throws: the toggle answers 500 from
\* its catch, the token save only logs a warning (188-190) and answers 200.
AdWrite(a) ==
  /\ adPc[a] \in {"update", "insert"}
  /\ adPc' = [ adPc EXCEPT ![a] = "done" ]
  /\ IF adPc[a] = "update"
       THEN /\ follower_consents' =
                 ConsentUpdate(follower_consents, adReq[a].followerId, adReq[a].enabled = "true")
            /\ adStatus' = [ adStatus EXCEPT ![a] = 200 ]
       ELSE IF ConsentInsertOk(follower_consents, NewConsent(adReq[a]))
         THEN /\ follower_consents' = ConsentInsert(follower_consents, NewConsent(adReq[a]))
              /\ adStatus' = [ adStatus EXCEPT ![a] = 200 ]
         ELSE /\ follower_consents' = follower_consents
              /\ adStatus' = [ adStatus EXCEPT ![a] = IF adReq[a].kind = "toggle" THEN 500 ELSE 200 ]
  /\ UNCHANGED << consentKeyed, adReq >>
  /\ UNCHANGED << fanoutVars, retryVars, normVars, tradesVars >>

\* admin requests arrive while one fan-out request for both followers is handled
AdminWorkloads ==
  { w \in [ AdminIds -> AdminRequests ] :
      \A a \in AdminIds \ {1} : AdminFieldsPresent(w[a]) /\ w[a].followerId = "f1" }

AdminFanout ==
  { w \in Workloads :
      /\ w[1] \in ValidRequests /\ w[1].masterQty = MaxMasterQty
      /\ \A i \in Invocations \ {1} : w[i] \in InvalidRequests /\ w[i].tradeId = "" }

InitAdmin ==
  /\ InitLocal
  /\ followers \in { d \in Directories : \A f \in FollowerIds : d[f].copy_trading_enabled }
  /\ dbFaulty = FALSE
  /\ orderEndpoint = EnvOrderEndpoint
  /\ maxInFlight = 1
  /\ req \in AdminFanout
  /\ RetryParked
  /\ IngestParked
  /\ TradesParked
  /\ follower_consents = EmptyBag
  /\ consentKeyed \in BOOLEAN
  /\ adReq \in AdminWorkloads
  /\ adPc = [ a \in AdminIds |-> "idle" ]
  /\ adStatus = [ a \in AdminIds |-> 0 ]

AdminNext ==
  \/ Next
  \/ \E a \in AdminIds : AdBegin(a)
  \/ \E a \in AdminIds : AdCheck(a)
  \/ \E a \in AdminIds : AdWrite(a)

SpecAdmin == InitAdmin /\ [][AdminNext]_vars

\* the same handler behind the copy-trade dialog, executed repeatedly
InitDialog ==
  /\ InitLocal
  /\ followers \in Directories
  /\ dbFaulty = FALSE
  /\ orderEndpoint = EnvOrderEndpoint
  /\ maxInFlight = 1
  /\ req \in DialogWorkloads
  /\ RetryParked
  /\ IngestParked
  /\ AdminParked
  /\ TradesParked

SpecDialog == InitDialog /\ [][Next]_vars

\* the same handler with the order endpoint set or not set, on requests whose
\* master quantity is any non-zero integer (line 27 tests !masterQty only)
EdgeRequests ==
  { Request("t1", "INFY", "BUY", q, 100, "", {}) : q \in { 0 - MaxMasterQty, 1, MaxMasterQty } }

EdgeWorkloads ==
  { w \in [ Invocations -> EdgeRequests \cup InvalidRequests ] :
      /\ w[1] \in EdgeRequests
      /\ \A i \in Invocations \ {1} : w[i] \in InvalidRequests /\ w[i].tradeId = "" }

InitEdge ==
  /\ InitLocal
  /\ followers \in Directories
  /\ dbFaulty = FALSE
  /\ orderEndpoint \in { "", EnvOrderEndpoint }
  /\ maxInFlight = 1
  /\ req \in EdgeWorkloads
  /\ RetryParked
  /\ IngestParked
  /\ AdminParked
  /\ TradesParked

SpecEdge == InitEdge /\ [][Next]_vars

\* =========================================================================
\* fetchWithRetry (src/unnamed/part_003, 166-183), one call followed fetch by
\* fetch.  Every caller in the repository passes url and options only, so
\* retries and backoff have their default values.  Time is logical: a fetch
\* takes some time, a timer fires at or after its delay.
\* =========================================================================

\* the fan-out handler is not running
FanoutParked ==
  /\ InitLocal
  /\ followers = CHOOSE d \in Directories : TRUE
  /\ dbFaulty = FALSE
  /\ orderEndpoint = EnvOrderEndpoint
  /\ maxInFlight = 1
  /\ req = CHOOSE w \in Workloads : TRUE

FetchDurations == {0, 20}     \* ms one fetch may take
TimerLags      == {0, 1}      \* ms a timer may fire late

RetryInit ==
  /\ FanoutParked
  /\ AdminParked
  /\ TradesParked
  /\ IngestParked
  /\ fwPc = "idle"
  /\ fwRetries = DefaultRetries
  /\ fwBackoff = DefaultBackoff
  /\ fwAttempt = 0
  /\ fwLog = << >>
  /\ fwWaits = << >>
  /\ fwClock = 0
  /\ fwRes = NoResponse
  /\ fwErr = NoError

\* line 167: let attempt = 0
FwCall ==
  /\ fwPc = "idle"
  /\ fwPc' = "fetching"
  /\ fwAttempt' = 0
  /\ UNCHANGED << fwRetries, fwBackoff, fwLog, fwWaits, fwClock, fwRes, fwErr >>
  /\ UNCHANGED << fanoutVars, normVars, adminVars, tradesVars >>

\* the loop left one pass early
loopCondition_short(att, retries) == att < retries

\* line 168: while (attempt <= retries)
loopCondition(att, retries) == att <= retries

\* lines 168-181: one pass of the while loop up to its await setTimeout;
\* line 182 when the loop condition fails
FwFetch(r, d) ==
  /\ fwPc = "fetching"
  /\ IF loopCondition(fwAttempt, fwRetries)
       THEN /\ fwLog' = Append(fwLog, r)
            /\ fwClock' = fwClock + d
            /\ IF ok(r)
                 THEN \* return res
                      /\ fwRes' = r
                      /\ fwPc' = "returned"
                      /\ UNCHANGED << fwErr, fwWaits >>
                 ELSE IF lastAttempt(fwAttempt, fwRetries)
                   THEN \* throw err
                        /\ fwErr' = caught(r)
                        /\ fwPc' = "thrown"
                        /\ UNCHANGED << fwRes, fwWaits >>
                   ELSE \* await new Promise((r) => setTimeout(r, backoff * Math.pow(2, attempt)))
                        /\ fwWaits' = Append(fwWaits, backoffDelay(fwBackoff, fwAttempt))
                        /\ fwPc' = "waiting"
                        /\ UNCHANGED << fwRes, fwErr >>
       ELSE \* throw new Error('Unreachable')
            /\ fwErr' = [ message |-> << "Unreachable" >> ]
            /\ fwPc' = "thrown"
            /\ UNCHANGED << fwLog, fwClock, fwRes, fwWaits >>
  /\ UNCHANGED << fwRetries, fwBackoff, fwAttempt >>
  /\ UNCHANGED << fanoutVars, normVars, adminVars, tradesVars >>

\* lines 178-179: the timer fires; attempt++
FwWake(lag) ==
  /\ fwPc = "waiting"
  /\ fwClock' = fwClock + fwWaits[Len(fwWaits)] + lag
  /\ fwAttempt' = fwAttempt + 1
  /\ fwPc' = "fetching"
  /\ UNCHANGED << fwRetries, fwBackoff, fwLog, fwWaits, fwRes, fwErr >>
  /\ UNCHANGED << fanoutVars, normVars, adminVars, tradesVars >>

RetryNext ==
  \/ FwCall
  \/ \E r \in FetchResults, d \in FetchDurations : FwFetch(r, d)
  \/ \E lag \in TimerLags : FwWake(lag)

SpecRetry == RetryInit /\ [][RetryNext]_vars

\* the same call when every fetch settles and every timer fires
SpecRetryFair ==
  /\ RetryInit
  /\ [][RetryNext]_vars
  /\ WF_vars(\E r \in FetchResults, d \in FetchDurations : FwFetch(r, d))
  /\ WF_vars(\E lag \in TimerLags : FwWake(lag))

\* =========================================================================
\* Trade ingestion (src/unnamed/part_003 and the routes and components that
\* normalise raw broker records into trades).
\*
\* Encodings.  A missing field (undefined / null) is "" for text fields,
\* Absent for numeric fields and NoStamp for time fields; a field that is
\* present is never the empty string.  The text of a time field is kept as
\* the form it matches and the numbers written in it; an instant is a number
\* of seconds since the Unix epoch (milliseconds are always 000 here), and
\* the ISO string of an instant is the form "iso" with its UTC calendar
\* fields.  A JavaScript number is [nan, n]; NaN is [nan |-> TRUE, n |-> 0].
\* =========================================================================

\* ------------------------------------------------------------ bounds
MaxBatch  == 2      \* raw records in one payload
MaxCycles == 2      \* ingestion cycles followed
MaxTicks  == 1      \* steps of the server clock

\* ------------------------------------------------------------ Date
SecondsPerDay == 24 * 3600
IstOffset     == (11 * 3600) \div 2         \* 5.5 * 60 * 60 * 1000 ms, in seconds

\* days between 1970-01-01 and y-m-d of the proleptic Gregorian calendar
DaysFromCivil(y, m, d) ==
  LET yy  == IF m <= 2 THEN y - 1 ELSE y
      era == yy \div 400
      yoe == yy - era * 400
      mp  == IF m > 2 THEN m - 3 ELSE m + 9
      doy == (153 * mp + 2) \div 5 + d - 1
      doe == yoe * 365 + yoe \div 4 - yoe \div 100 + doy
  IN era * 146097 + doe - 719468

\* Date.UTC(y, m - 1, d, h, mi, sec) / 1000
DateUTC(y, m, d, h, mi, sec) == DaysFromCivil(y, m, d) * SecondsPerDay + h * 3600 + mi * 60 + sec

\* new Date(y, m - 1, d, h, mi, sec).getTime() / 1000: the fields are read in
\* the server's own time zone
DateLocal(y, m, d, h, mi, sec, tz) == DateUTC(y, m, d, h, mi, sec) - tz * 60

\* a time-field text: form is "" (missing), "ist" (YYYY-MM-DD HH:MM:SS),
\* "iso" (ISO 8601 with Z), "unix" (digits, seconds), "unixms" (digits,
\* milliseconds: n is the value without its last three digits 000),
\* "hm" (HH:MM:SS) or "junk"
Stamp(form, y, m, d, h, mi, sec, n) ==
  [ form |-> form, y |-> y, m |-> m, d |-> d, h |-> h, mi |-> mi, sec |-> sec, n |-> n ]

NoStamp == Stamp("", 0, 0, 0, 0, 0, 0, 0)

\* new Date(t * 1000).toISOString()
toISOString(t) ==
  LET z    == t \div SecondsPerDay + 719468
      rest == t % SecondsPerDay
      era  == z \div 146097
      doe  == z - era * 146097
      yoe  == (doe - doe \div 1460 + doe \div 36524 - doe \div 146096) \div 365
      doy  == doe - (365 * yoe + yoe \div 4 - yoe \div 100)
      mp   == (5 * doy + 2) \div 153
      d    == doy - (153 * mp + 2) \div 5 + 1
      m    == IF mp < 10 THEN mp + 3 ELSE mp - 9
      y    == yoe + era * 400 + (IF m <= 2 THEN 1 ELSE 0)
  IN Stamp("iso", y, m, d, rest \div 3600, (rest % 3600) \div 60, rest % 60, 0)

\* new Date(isoString).getTime() / 1000
getTime(v) == DateUTC(v.y, v.m, v.d, v.h, v.mi, v.sec)

\* ------------------------------------------------- parseTradeTimestamp
\* the candidate fields with exchangeTimestamp tried before the fill-time fields
candidates_exchangeFirst ==
  << "exchangeTimestamp", "FillTime", "fillTime", "FILL_TIME",
     "ExchangeTimestamp", "exchange_timestamp", "Exch_Timestamp",
     "TradedTime", "tradedTime", "Ttime",
     "OrderTime", "orderTime", "OrderCreateTime", "CreatedTime", "UpdatedTime",
     "time", "Time", "timestamp", "Timestamp", "tradeTime", "executionTime" >>

\* lines 34-65: the candidate fields, in the order they are tried
candidates ==
  << "FillTime", "fillTime", "FILL_TIME",
     "exchangeTimestamp", "ExchangeTimestamp", "exchange_timestamp", "Exch_Timestamp",
     "TradedTime", "tradedTime", "Ttime",
     "OrderTime", "orderTime", "OrderCreateTime", "CreatedTime", "UpdatedTime",
     "time", "Time", "timestamp", "Timestamp", "tradeTime", "executionTime" >>

\* lines 73-151: does one candidate value convert, and to which instant
\*   ist     the fields read as server-local time, minus 5 h 30 min
\*   iso     new Date(val)
\*   unix    num > 0; seconds unless num > 9999999999
\*   hm      today's UTC date with these fields, minus 5 h 30 min
Parses(v) ==
  \/ v.form \in {"ist", "iso", "hm"}
  \/ v.form \in {"unix", "unixms"} /\ v.n > 0

\* lines 91-92
IstInstant(v, tz) == DateLocal(v.y, v.m, v.d, v.h, v.mi, v.sec, tz) - IstOffset

\* lines 113-117; num > 9999999999 holds for a milliseconds text exactly when
\* its value without the last three digits is at least 10^7
UnixInstant(v) ==
  IF v.form = "unixms"
    THEN IF v.n >= 10000000 THEN v.n ELSE v.n * 1000 * 1000
    ELSE v.n

\* lines 130-143
HmInstant(v, now) == (now - (now % SecondsPerDay)) + v.h * 3600 + v.mi * 60 + v.sec - IstOffset

Instant(v, tz, now) ==
  CASE v.form = "ist" -> IstInstant(v, tz)
    [] v.form = "iso" -> getTime(v)
    [] v.form \in {"unix", "unixms"} -> UnixInstant(v)
    [] v.form = "hm" -> HmInstant(v, now)

RECURSIVE FirstParsed(_, _)
\* lines 67-152: position of the first candidate whose value converts, 0 if none
FirstParsed(d, k) ==
  IF k > Len(candidates) THEN 0
  ELSE IF Parses(d[candidates[k]]) THEN k
  ELSE FirstParsed(d, k + 1)

\* the loop without its return: the last candidate that converts wins
parseTradeTimestamp_lastWins(d, fallbackTime, tz, now) ==
  LET hits == { j \in 1..Len(candidates) : Parses(d[candidates[j]]) }
      k    == IF hits = {} THEN 0 ELSE CHOOSE x \in hits : \A y \in hits : y <= x
  IN IF k > 0 THEN toISOString(Instant(d[candidates[k]], tz, now))
     ELSE IF fallbackTime.form # "" THEN fallbackTime
     ELSE toISOString(0)

\* parseTradeTimestamp(d, fallbackTime); fallbackTime is NoStamp when not passed
parseTradeTimestamp(d, fallbackTime, tz, now) ==
  LET k == FirstParsed(d, 1)
  IN IF k > 0 THEN toISOString(Instant(d[candidates[k]], tz, now))
     ELSE IF fallbackTime.form # "" THEN fallbackTime
     ELSE toISOString(0)

\* ------------------------------------------------------ raw broker records
\* the fields of a raw record that the normalisation paths read
TextFields ==
  { "id", "tradeId", "NOrdNo", "orderId", "brokerOrderId", "BrokerOrderId",
    "Trantype", "tranType", "transactionType", "side", "buySell",
    "symbol", "instrument", "scrip", "ticker", "Trsym", "tradingSymbol",
    "formattedInstrumentName",
    "Status", "status", "orderStatus", "OrderStatus" }

TimeFields == { candidates[k] : k \in 1..Len(candidates) } \cup { "createdAt" }

NumFields ==
  { "quantity", "Qty", "qty", "filledQuantity", "filledQty",
    "price", "rate", "fillPrice", "averageTradedPrice", "avgTradedPrice", "averagePrice",
    "Prc", "Price", "FillPrice", "AvgPrice" }

\* a numeric field: missing, a number, a text that Number() converts, or a
\* text that it does not
Absent     == [ t |-> "absent",  n |-> 0 ]
NumV(n)    == [ t |-> "number",  n |-> n ]
NumText(n) == [ t |-> "numtext", n |-> n ]
JunkText   == [ t |-> "junk",    n |-> 0 ]

\* a JavaScript number
Fin(n) == [ nan |-> FALSE, n |-> n ]
NaN    == [ nan |-> TRUE,  n |-> 0 ]

\* Number(v)
Number(v) == IF v.t \in {"number", "numtext"} THEN Fin(v.n) ELSE NaN

\* the truthiness of a numeric field's value (a non-empty text is truthy)
Truthy(v) == v.t \in {"numtext", "junk"} \/ (v.t = "number" /\ v.n # 0)

RECURSIVE Coalesce(_, _, _)
\* d.f1 ?? d.f2 ?? ... ?? dflt over numeric fields
Coalesce(d, fields, dflt) ==
  IF fields = << >> THEN dflt
  ELSE IF d[Head(fields)].t # "absent" THEN d[Head(fields)]
  ELSE Coalesce(d, Tail(fields), dflt)

RECURSIVE FirstTruthy(_, _, _)
\* d.f1 || d.f2 || ... || dflt over numeric fields
FirstTruthy(d, fields, dflt) ==
  IF fields = << >> THEN dflt
  ELSE IF Truthy(d[Head(fields)]) THEN d[Head(fields)]
  ELSE FirstTruthy(d, Tail(fields), dflt)

RECURSIVE FirstText(_, _, _)
\* d.f1 ?? d.f2 ?? ... ?? dflt and d.f1 || d.f2 || ... || dflt over text fields
\* (a present text field is never empty, so the two agree)
FirstText(d, fields, dflt) ==
  IF fields = << >> THEN dflt
  ELSE IF d[Head(fields)] # "" THEN d[Head(fields)]
  ELSE FirstText(d, Tail(fields), dflt)

RECURSIVE FirstStamp(_, _, _)
\* d.f1 || d.f2 || ... || dflt over time fields
FirstStamp(d, fields, dflt) ==
  IF fields = << >> THEN dflt
  ELSE IF d[Head(fields)].form # "" THEN d[Head(fields)]
  ELSE FirstStamp(d, Tail(fields), dflt)

\* String.prototype.toUpperCase on the transaction codes used here
toUpperCase(s) ==
  CASE s \in {"B", "b"} -> "B"
    [] s \in {"BUY", "buy", "Buy"} -> "BUY"
    [] s \in {"S", "s"} -> "S"
    [] s \in {"SELL", "sell", "Sell"} -> "SELL"
    [] s \in {"SHORT", "short"} -> "SHORT"
    [] OTHER -> s

\* String.prototype.toLowerCase on the order statuses used here
toLowerCase(s) ==
  CASE s \in {"complete", "COMPLETE", "Complete"} -> "complete"
    [] s \in {"filled", "Filled"} -> "filled"
    [] s \in {"rejected", "REJECTED"} -> "rejected"
    [] OTHER -> s

\* String.prototype.replace(/\s+/g, "") on the identifiers used here
stripSpaces(s) == IF s = "N 1" THEN "N1" ELSE s

\* part_003 lines 21-25
normalizeSide(o) ==
  LET v == toUpperCase(FirstText(o, << "Trantype", "tranType", "transactionType", "side", "buySell" >>, ""))
  IN IF v = "S" \/ v = "SELL" \/ v = "SHORT" THEN "Sell" ELSE "Buy"

\* ------------------------------------------------------------------ trades
\* a trade identifier: the vendor's text, or a template filled in
\*   composite  `${symbol}_${timestamp}_${price}_${side}`
\*   A-ORD      `A-ORD-${Date.now()}-${idx}`
\*   A          `A-${Date.now()}-${idx}`
\*   account    `${resolvedAccount}-${Date.now()}` and `${resolvedAccount}-${Date.now()}-${idx}`
\*   table      `${account}-${symbol}-${price}-${quantity}-${side}-${timestamp}`
NoId ==
  [ kind |-> "", text |-> "", account |-> "", symbol |-> "", timestamp |-> NoStamp,
    price |-> Fin(0), quantity |-> Fin(0), side |-> "", now |-> 0, idx |-> 0 ]

VendorId(vendorText) == [ NoId EXCEPT !.kind = "vendor", !.text = vendorText ]

CompositeId(symbol, timestamp, price, side) ==
  [ NoId EXCEPT !.kind = "composite", !.symbol = symbol, !.timestamp = timestamp,
                !.price = price, !.side = side ]

ClockId(kind, account, now, ix) ==
  [ NoId EXCEPT !.kind = kind, !.account = account, !.now = now, !.idx = ix ]

TableId(account, symbol, price, quantity, side, timestamp) ==
  [ NoId EXCEPT !.kind = "table", !.account = account, !.symbol = symbol, !.price = price,
                !.quantity = quantity, !.side = side, !.timestamp = timestamp ]

\* the canonical fields of a trade
Trade(id, timestamp, account, symbol, side, quantity, price, status) ==
  [ id |-> id, timestamp |-> timestamp, account |-> account, symbol |-> symbol,
    side |-> side, quantity |-> quantity, price |-> price, status |-> status ]

\* ------------------------------------------------------ normalisation paths
\* accountId || process.env.ALICE_MASTER_ACCOUNT || 'Master'
resolvedAccount == "Master"

RECURSIVE KeepFirst(_, _)
\* part_003 lines 291-296: filter with a Set of the ids seen
KeepFirst(q, seen) ==
  IF q = << >> THEN << >>
  ELSE IF Head(q).id \in seen THEN KeepFirst(Tail(q), seen)
  ELSE << Head(q) >> \o KeepFirst(Tail(q), seen \cup { Head(q).id })

\* part_003 lines 256-288: one element of getMasterTrades' map
MasterTrade(d, tz, now) ==
  LET id        == FirstText(d, << "id", "tradeId", "NOrdNo", "brokerOrderId", "BrokerOrderId", "orderId" >>, "")
      timestamp == parseTradeTimestamp(d, NoStamp, tz, now)
      symbol    == FirstText(d, << "symbol", "instrument", "scrip", "ticker" >>, "")
      price     == Number(Coalesce(d, << "price", "rate", "fillPrice", "averageTradedPrice",
                                         "avgTradedPrice", "averagePrice" >>, NumV(0)))
      side      == FirstText(d, << "side", "buySell" >>,
                             IF d.transactionType = "SELL" THEN "Sell" ELSE "Buy")
      uniqueId  == IF id # "" THEN VendorId(id) ELSE CompositeId(symbol, timestamp, price, side)
  IN Trade(uniqueId, timestamp, resolvedAccount, symbol, side,
           Number(Coalesce(d, << "quantity" >>, NumV(0))), price,
           FirstText(d, << "status" >>, "Filled"))

\* part_003 lines 255-298, with an endpoint and credentials configured
getMasterTrades(source, tz, now) ==
  KeepFirst([ k \in 1..Len(source) |-> MasterTrade(source[k], tz, now) ], {})

\* part_003 lines 379-382
Completed(o) ==
  LET status == toLowerCase(FirstText(o, << "Status", "status", "orderStatus", "OrderStatus" >>, ""))
  IN status = "complete" \/ status = "filled" \/ status = "completed"

\* part_003 lines 415-440: one element of the order-book map; ix counts from 0
OrderBookTrade(o, ix, tz, now) ==
  LET tradeTime == parseTradeTimestamp(o, toISOString(now), tz, now)
      vendor    == FirstText(o, << "NOrdNo", "orderId", "BrokerOrderId" >>, "")
  IN Trade(IF vendor # "" THEN VendorId(vendor) ELSE ClockId("A-ORD", "", now, ix),
           tradeTime, resolvedAccount,
           FirstText(o, << "Trsym", "symbol", "instrument", "tradingSymbol" >>, ""),
           normalizeSide(o),
           Number(Coalesce(o, << "quantity" >>, NumV(0))),
           Number(Coalesce(o, << "Prc", "Price", "FillPrice", "fillPrice", "AvgPrice",
                                 "averageTradedPrice" >>, NumV(0))),
           "Filled")

\* part_003 lines 462-488: one element of the trades-endpoint map
FallbackTrade(d, ix, tz, now) ==
  LET tradeTime == parseTradeTimestamp(d, NoStamp, tz, now)
      vendor    == FirstText(d, << "id", "tradeId" >>, "")
  IN Trade(IF vendor # "" THEN VendorId(vendor) ELSE ClockId("A", "", now, ix),
           tradeTime, resolvedAccount,
           FirstText(d, << "symbol", "instrument", "scrip", "ticker" >>, ""),
           FirstText(d, << "side", "buySell" >>,
                     IF d.transactionType = "SELL" THEN "Sell" ELSE "Buy"),
           Number(Coalesce(d, << "quantity" >>, NumV(0))),
           Number(Coalesce(d, << "price", "rate", "fillPrice", "averageTradedPrice",
                                 "avgTradedPrice" >>, NumV(0))),
           FirstText(d, << "status" >>, "Filled"))

\* part_003 lines 351-496 with a token stored for the account.  endpoint is
\* "orders" when the order-book fetch answers, "trades" when it fails and the
\* trades endpoint answers, "none" when both fail.
getTradesForAccount(source, endpoint, tz, now) ==
  CASE endpoint = "orders" ->
         LET completedOrders == SelectSeq(source, Completed)
         IN [ k \in 1..Len(completedOrders) |-> OrderBookTrade(completedOrders[k], k - 1, tz, now) ]
    [] endpoint = "trades" ->
         [ k \in 1..Len(source) |-> FallbackTrade(source[k], k - 1, tz, now) ]
    [] OTHER -> << >>

\* part_003 lines 542-563: payload.result is the raw batch
getOrderHistory(source, tz, now) ==
  IF source = << >> THEN << >>
  ELSE LET o      == source[1]
           filled == Number(Coalesce(o, << "filledQuantity", "filledQty" >>, NumV(0)))
           status == toLowerCase(FirstText(o, << "orderStatus", "status" >>, ""))
           vendor == FirstText(o, << "brokerOrderId" >>, "")
       IN IF (~ filled.nan /\ filled.n = 0) /\ status # "complete" /\ status # "filled"
            THEN << >>
            ELSE << Trade(IF vendor # "" THEN VendorId(vendor) ELSE ClockId("account", resolvedAccount, now, 0),
                          parseTradeTimestamp(o, NoStamp, tz, now),
                          resolvedAccount,
                          FirstText(o, << "tradingSymbol", "formattedInstrumentName" >>, ""),
                          IF toUpperCase(FirstText(o, << "transactionType" >>, "BUY")) = "SELL"
                            THEN "Sell" ELSE "Buy",
                          filled,
                          Number(Coalesce(o, << "averageTradedPrice", "price" >>, NumV(0))),
                          FirstText(o, << "orderStatus" >>,
                                    IF ~ filled.nan /\ filled.n > 0 THEN "Filled" ELSE "Unknown")) >>

\* trade-book/route.ts line 70
BookCompleted(o) == toLowerCase(FirstText(o, << "Status", "status" >>, "")) = "complete"

\* trade-book/route.ts lines 72-83; the timestamp is the raw field's text
BookTrade(o, ix, now) ==
  LET vendor == FirstText(o, << "NOrdNo", "orderId" >>, "")
  IN Trade(IF vendor # "" THEN VendorId(vendor) ELSE ClockId("account", resolvedAccount, now, ix),
           FirstStamp(o, << "FillTime", "fillTime", "createdAt" >>, toISOString(now)),
           resolvedAccount,
           FirstText(o, << "Trsym", "symbol", "instrument" >>, ""),
           IF \/ toUpperCase(FirstText(o, << "Trantype", "tranType", "transactionType" >>, "")) = "B"
              \/ toUpperCase(FirstText(o, << "Trantype" >>, "")) = "BUY"
             THEN "Buy" ELSE "Sell",
           Number(FirstTruthy(o, << "Qty", "qty", "quantity" >>, NumV(0))),
           Number(FirstTruthy(o, << "Prc", "Price", "FillPrice", "fillPrice" >>, NumV(0))),
           "Filled")

\* trade-book/route.ts lines 68-83, with a token stored and the broker answering
tradeBook(source, now) ==
  LET completed == SelectSeq(source, BookCompleted)
  IN [ k \in 1..Len(completed) |-> BookTrade(completed[k], k - 1, now) ]

\* JSON.stringify writes NaN as null; the reader's `?? 0` turns null into 0
jsonNumber(x) == IF x.nan THEN Fin(0) ELSE x

\* part_000 lines 74-97: one element of the trades table's map; t is a trade
\* of the /api/alice/trades response
TableTrade(t, now) ==
  LET quantity  == jsonNumber(t.quantity)
      price     == jsonNumber(t.price)
      timestamp == IF t.timestamp.form # "" THEN t.timestamp ELSE toISOString(now)
      side      == IF t.side # "" THEN t.side ELSE "Buy"
      account   == IF t.account # "" THEN t.account ELSE "A"
      baseId    == IF t.id.kind # "" THEN t.id
                   ELSE TableId(account, t.symbol, price, quantity, side, timestamp)
  IN Trade([ baseId EXCEPT !.text = stripSpaces(@) ], timestamp,
           IF t.account # "" THEN t.account ELSE "Master",
           t.symbol, side, quantity, price,
           IF t.status # "" THEN t.status ELSE "Filled")

\* part_000 lines 101-105: a Map keyed by id keeps the position of the first
\* trade set under a key and the value of the last one
uniqueMap(q) ==
  LET firsts == KeepFirst(q, {})
      lastOf(id) == q[CHOOSE k \in 1..Len(q) :
                        q[k].id = id /\ \A j \in (k + 1)..Len(q) : q[j].id # id]
  IN [ k \in 1..Len(firsts) |-> lastOf(firsts[k].id) ]

RECURSIVE InsertDesc(_, _)
InsertDesc(x, sorted) ==
  IF sorted = << >> THEN << x >>
  ELSE IF getTime(Head(sorted).timestamp) >= getTime(x.timestamp)
    THEN << Head(sorted) >> \o InsertDesc(x, Tail(sorted))
    ELSE << x >> \o sorted

RECURSIVE sortDesc(_)
\* part_000 lines 107-111: Array.prototype.sort (stable), newest first
sortDesc(q) ==
  IF q = << >> THEN << >>
  ELSE InsertDesc(q[Len(q)], sortDesc(SubSeq(q, 1, Len(q) - 1)))

\* part_000 lines 70-113: fetchTrades on the response of /api/alice/trades
\* (trades/route.ts line 41: getTradesForAccount)
tradesTable(incoming, now) ==
  sortDesc(uniqueMap([ k \in 1..Len(incoming) |-> TableTrade(incoming[k], now) ]))

\* ------------------------------------------------------- the raw batches
Blank ==
  [ f \in TextFields \cup TimeFields \cup NumFields |->
      IF f \in TextFields THEN "" ELSE IF f \in TimeFields THEN NoStamp ELSE Absent ]

\* a raw record as the broker writes it: the vendor's order number, the
\* transaction code, one time field, quantity, price and order status, each
\* under the names the order book and the trades endpoint use
RawRecord(vendor, code, timeField, stamp, qty, prc, status) ==
  [ Blank EXCEPT !["id"] = vendor, !["NOrdNo"] = vendor, !["brokerOrderId"] = vendor,
                 !["Trantype"] = code, !["transactionType"] = code, !["side"] = code,
                 !["symbol"] = "INFY", !["Trsym"] = "INFY", !["tradingSymbol"] = "INFY",
                 ![timeField] = stamp,
                 !["quantity"] = qty, !["Qty"] = qty, !["filledQuantity"] = qty,
                 !["price"] = prc, !["Prc"] = prc, !["averageTradedPrice"] = prc,
                 !["Status"] = status, !["status"] = status, !["orderStatus"] = status ]

FillAt1430 == Stamp("ist", 2024, 2, 10, 14, 30, 45, 0)     \* "2024-02-10 14:30:45"
FillAt1545 == Stamp("ist", 2024, 2, 10, 15, 45, 0, 0)      \* "2024-02-10 15:45:00"
IsoAt0915  == Stamp("iso", 2024, 2, 10, 9, 15, 0, 0)       \* "2024-02-10T09:15:00Z"
UnixSecs   == Stamp("unix", 0, 0, 0, 0, 0, 0, 1707565845)  \* "1707565845"
UnixMillis == Stamp("unixms", 0, 0, 0, 0, 0, 0, 1707565845) \* "1707565845000"
HmAt0915   == Stamp("hm", 0, 0, 0, 9, 15, 0, 0)            \* "09:15:00"
JunkStamp  == Stamp("junk", 0, 0, 0, 0, 0, 0, 0)           \* "N/A"

RawRecords ==
  { RawRecord("N1", "B",     "FillTime",          FillAt1430, NumV(10),    NumV(100),    "complete"),
    RawRecord("N1", "S",     "FillTime",          FillAt1545, NumV(5),     NumV(101),    "complete"),
    RawRecord("N 1", "BUY",  "FillTime",          FillAt1545, NumV(10),    NumV(100),    "Complete"),
    RawRecord("",   "B",     "FillTime",          FillAt1430, NumV(10),    NumV(100),    "complete"),
    RawRecord("",   "S",     "FillTime",          NoStamp,    NumV(10),    NumV(100),    "complete"),
    RawRecord("N2", "sell",  "time",              IsoAt0915,  NumText(10), NumText(100), "filled"),
    RawRecord("N2", "SHORT", "exchangeTimestamp", UnixSecs,   NumV(10),    NumV(100),    "complete"),
    RawRecord("N3", "X",     "orderTime",         HmAt0915,   NumV(10),    NumV(100),    "complete"),
    RawRecord("N3", "",      "FillTime",          JunkStamp,  NumV(10),    NumV(100),    "complete"),
    RawRecord("N4", "Buy",   "FillTime",          FillAt1430, JunkText,    NumV(100),    "complete"),
    RawRecord("N4", "s",     "Ttime",             UnixMillis, Absent,      JunkText,     "complete"),
    RawRecord("N5", "b",     "FillTime",          FillAt1430, NumV(0),     Absent,       "complete"),
    RawRecord("N6", "B",     "FillTime",          FillAt1430, NumV(10),    NumV(100),    "rejected") }

RECURSIVE SeqsUpTo(_, _)
\* the sequences over S of length 1..n
SeqsUpTo(S, n) ==
  IF n = 0 THEN {}
  ELSE LET shorter == SeqsUpTo(S, n - 1)
       IN { << x >> : x \in S } \cup { Append(q, x) : q \in shorter, x \in S }

\* the server's zone: UTC, Asia/Kolkata, America/New_York (winter)
ServerZones == { 0, 330, -300 }

\* the server starts at 2024-02-10T10:00:00Z; its clock moves a day at a time
ServerStart == DateUTC(2024, 2, 10, 10, 0, 0)
ClockStep   == SecondsPerDay

Endpoints == { "orders", "trades", "none" }

IngestInit ==
  /\ FanoutParked
  /\ AdminParked
  /\ TradesParked
  /\ RetryParked
  /\ serverTz \in ServerZones
  /\ wallClock = ServerStart
  /\ payload \in SeqsUpTo(RawRecords, MaxBatch)
  /\ ingested = << >>

\* one ingestion cycle went through path (reading endpoint) and produced batch
Cycle(path, endpoint, batch) ==
  /\ Len(ingested) < MaxCycles
  /\ ingested' = Append(ingested, [ path |-> path, endpoint |-> endpoint, at |-> wallClock,
                                     batch |-> batch ])
  /\ UNCHANGED << serverTz, wallClock, payload >>
  /\ UNCHANGED << fanoutVars, retryVars, adminVars, tradesVars >>

\* time passes
Tick ==
  /\ wallClock < ServerStart + MaxTicks * ClockStep
  /\ wallClock' = wallClock + ClockStep
  /\ UNCHANGED << serverTz, payload, ingested >>
  /\ UNCHANGED << fanoutVars, retryVars, adminVars, tradesVars >>

\* GET /api/alice/trades' second handler: getMasterTrades()
IngestMaster == Cycle("getMasterTrades", "", getMasterTrades(payload, serverTz, wallClock))

\* getTradesForAccount(accountId)
IngestAccount(endpoint) ==
  Cycle("getTradesForAccount", endpoint, getTradesForAccount(payload, endpoint, serverTz, wallClock))

\* getOrderHistory(brokerOrderId, accountId)
IngestHistory == Cycle("getOrderHistory", "", getOrderHistory(payload, serverTz, wallClock))

\* GET /api/alice/trade-book
IngestTradeBook == Cycle("tradeBook", "", tradeBook(payload, wallClock))

\* the trades table's fetchTrades on GET /api/alice/trades
IngestTable(endpoint) ==
  Cycle("tradesTable", endpoint,
        tradesTable(getTradesForAccount(payload, endpoint, serverTz, wallClock), wallClock))

IngestNext ==
  \/ Tick
  \/ IngestMaster
  \/ \E e \in Endpoints : IngestAccount(e)
  \/ IngestHistory
  \/ IngestTradeBook
  \/ \E e \in Endpoints : IngestTable(e)

SpecIngest == IngestInit /\ [][IngestNext]_vars

\* ----------------------------------------- parseTradeTimestamp on its own
\* raw records that carry two or three time fields at once: the earlier
\* candidate converts or is junk, the later ones convert to other instants
TwoTimeRecords ==
  { [ RawRecord("N1", "B", candidates[a], va, NumV(10), NumV(100), "complete")
        EXCEPT ![candidates[b]] = vb ] :
      a \in 1..Len(candidates), b \in 1..Len(candidates),
      va \in { FillAt1430, HmAt0915, JunkStamp }, vb \in { IsoAt0915, UnixSecs } }

ThreeTimeRecords ==
  { [ RawRecord("N1", "B", fa, va, NumV(10), NumV(100), "complete")
        EXCEPT ![fb] = IsoAt0915, ![fc] = UnixSecs ] :
      fa \in { "FillTime", "fillTime" }, fb \in { "exchangeTimestamp", "TradedTime", "orderTime" },
      fc \in { "time", "timestamp", "executionTime" }, va \in { FillAt1430, JunkStamp } }

PriorityInit ==
  /\ FanoutParked
  /\ AdminParked
  /\ TradesParked
  /\ RetryParked
  /\ serverTz \in ServerZones
  /\ wallClock = ServerStart
  /\ payload \in { << d >> : d \in TwoTimeRecords \cup ThreeTimeRecords }
  /\ ingested = << >>

\* the two callers that pass no fallback time
PriorityNext ==
  \/ Tick
  \/ IngestMaster
  \/ IngestHistory

SpecPriority == PriorityInit /\ [][PriorityNext]_vars

\* ------------------------------------ getTradesForAccount, call by call
\* one use of fetchWithRetry: the endpoint and how the use ended
\* ("pending", "mapped", "failed")
Call(endpoint, outcome) == [ endpoint |-> endpoint, outcome |-> outcome ]

\* the last call ends with outcome
Ended(calls, outcome) == [ calls EXCEPT ![Len(calls)].outcome = outcome ]

\* accountId || process.env.ALICE_MASTER_ACCOUNT || 'Master'
resolveAccount(accountId) == IF accountId # "" THEN accountId ELSE resolvedAccount

\* the token check left out
tokenMissing_never(token) == FALSE

\* line 355: if (!token)
tokenMissing(token) == token = ""

\* const res = await fetchWithRetry(endpoint, { headers }): a fresh call
StartFetch ==
  /\ fwPc' = "fetching"
  /\ fwAttempt' = 0
  /\ fwLog' = << >>
  /\ fwWaits' = << >>
  /\ fwClock' = 0
  /\ fwRes' = NoResponse
  /\ fwErr' = NoError
  /\ UNCHANGED << fwRetries, fwBackoff >>

\* the second failure thrown on to the caller
GiveUp_rethrow ==
  /\ gtPc' = "thrown"
  /\ gtOut' = << >>

\* lines 490-493: catch (e2) { ...; return [] }
GiveUp ==
  /\ gtPc' = "returned"
  /\ gtOut' = << >>

\* lines 351-373: the account, its token, the order-book fetch
GtCall ==
  /\ gtPc = "idle"
  /\ IF tokenMissing(getAccountToken(resolveAccount(gtAccount)))
       THEN /\ gtPc' = "returned"
            /\ gtOut' = << >>
            /\ UNCHANGED << gtCalls, retryVars >>
       ELSE /\ gtPc' = "orders"
            /\ gtCalls' = << Call("orders", "pending") >>
            /\ gtOut' = gtOut
            /\ StartFetch
  /\ UNCHANGED << gtAccount >>
  /\ UNCHANGED << fanoutVars, normVars, adminVars >>

\* lines 373-452: the order book answered (its elements are objects, or the
\* filter / map throws on one that is not), or fetchWithRetry threw; the catch
\* at 449 starts the trades fetch
GtOrders(wellFormed) ==
  /\ gtPc = "orders"
  /\ fwPc \in {"returned", "thrown"}
  /\ IF fwPc = "returned" /\ wellFormed
       THEN /\ gtPc' = "returned"
            /\ gtOut' = getTradesForAccount(payload, "orders", serverTz, wallClock)
            /\ gtCalls' = Ended(gtCalls, "mapped")
            /\ UNCHANGED retryVars
       ELSE /\ gtPc' = "trades"
            /\ gtOut' = gtOut
            /\ gtCalls' = Append(Ended(gtCalls, "failed"), Call("trades", "pending"))
            /\ StartFetch
  /\ UNCHANGED << gtAccount >>
  /\ UNCHANGED << fanoutVars, normVars, adminVars >>

\* lines 452-494: the trades endpoint answered, or the second catch returns []
GtTrades(wellFormed) ==
  /\ gtPc = "trades"
  /\ fwPc \in {"returned", "thrown"}
  /\ IF fwPc = "returned" /\ wellFormed
       THEN /\ gtPc' = "returned"
            /\ gtOut' = getTradesForAccount(payload, "trades", serverTz, wallClock)
            /\ gtCalls' = Ended(gtCalls, "mapped")
       ELSE /\ GiveUp
            /\ gtCalls' = Ended(gtCalls, "failed")
  /\ UNCHANGED << gtAccount, retryVars >>
  /\ UNCHANGED << fanoutVars, normVars, adminVars >>

\* the accounts asked for: none given, the master, a follower without a token
TradeAccounts == { "", "Master", "f1" }

InitTrades ==
  /\ FanoutParked
  /\ AdminParked
  /\ fwPc = "idle"
  /\ fwRetries = DefaultRetries
  /\ fwBackoff = DefaultBackoff
  /\ fwAttempt = 0
  /\ fwLog = << >>
  /\ fwWaits = << >>
  /\ fwClock = 0
  /\ fwRes = NoResponse
  /\ fwErr = NoError
  /\ serverTz = 0
  /\ wallClock = ServerStart
  /\ payload \in { << >>,
                    << RawRecord("N1", "B", "FillTime", FillAt1430, NumV(10), NumV(100), "complete") >>,
                    << RawRecord("N6", "B", "FillTime", FillAt1430, NumV(10), NumV(100), "rejected") >> }
  /\ ingested = << >>
  /\ gtPc = "idle"
  /\ gtAccount \in TradeAccounts
  /\ gtCalls = << >>
  /\ gtOut = << >>

TradesNext ==
  \/ GtCall
  \/ \E r \in FetchResults, d \in FetchDurations : FwFetch(r, d)
  \/ \E lag \in TimerLags : FwWake(lag)
  \/ \E wellFormed \in BOOLEAN : GtOrders(wellFormed)
  \/ \E wellFormed \in BOOLEAN : GtTrades(wellFormed)

SpecTrades == InitTrades /\ [][TradesNext]_vars





\* ================================================================ properties
Entries(i) == { results[i][k] : k \in 1..Len(results[i]) }

\* number of ledger rows stored under a key
KeyCount(tradeId, f) ==
  BagCardinality([ row \in existingCopy(copied_trade_history, tradeId, f) |->
                     CopiesIn(row, copied_trade_history) ])

\* invocation i arrived after invocation j had sent its response
After(i, j) == j \in priorDone[i]

\* invocations i and j overlapped in time
Overlapped(i, j) ==
  /\ i # j /\ pc[i] # "idle" /\ pc[j] # "idle"
  /\ ~ After(i, j) /\ ~ After(j, i)

\* ------------------------------------------------------------------------ C1
\* C1: for every master trade id T and follower F the broker accepts at most
\* one follower order for (T, F), over any sequence of fan-out requests
\* carrying T and the fetch client's own retries of the order POST.
C1_AtMostOneOrderAccepted ==
  \A k \in TradeIds \X FollowerIds : brokerAccepted[k] <= 1

EntryOf(i, f) == { e \in Entries(i) : e.followerId = f }

\* invocation i repeats invocation j: same inputs, received after j responded,
\* and both have sent their summary
Repeats(i, j) ==
  /\ After(i, j) /\ req[i] = req[j]
  /\ pc[i] = "done" /\ httpStatus[i] = 200 /\ httpStatus[j] = 200

OrderFailed(i, f) ==
  /\ f \in posted[i]
  /\ order[i].follower # f
  /\ \A e \in EntryOf(i, f) : e.status # "SUCCESS"

\* C5: within one fan-out call over followers [.., A, .., B, ..], if A's
\* broker call fails, B is still processed: B gets its ledger check, its
\* quantity and its order attempt, and the call ends with the summary.
C5_Isolation ==
  \A i \in Invocations : pc[i] = "done" =>
    \A a \in 1..Len(flist[i]), b \in 1..Len(flist[i]) :
      (a < b /\ OrderFailed(i, flist[i][a].id)) =>
        /\ httpStatus[i] = 200
        /\ b <= Len(results[i])
        /\ results[i][b].followerId = flist[i][b].id
        /\ results[i][b].status = "SKIPPED" \/ flist[i][b].id \in posted[i]

\* A's order failed with a thrown error after the last retry, B ended as SUCCESS
C5_Witness ==
  \E i \in Invocations :
    /\ pc[i] = "done" /\ Len(results[i]) = 2
    /\ results[i][1].status = "FAILED" /\ results[i][1].reason = "fetch failed"
    /\ results[i][2].status = "SUCCESS"

\* ------------------------------------------------------------------------ C6
MissingField(r) ==
  r.symbol = "" \/ r.side = "" \/ r.masterQty = 0 \/ r.price = 0 \/ r.tradeId = ""

\* C6: a request missing symbol, side, master quantity, price or the trade id
\* is rejected with a validation error before any per-follower work: no
\* follower lookup, no ledger read or write, no audit write, no broker call.
C6_ValidationRejects ==
  \A i \in Invocations : (pc[i] # "idle" /\ MissingField(req[i])) =>
    /\ pc[i] = "done" /\ httpStatus[i] = 400
    /\ touched[i] = {} /\ posted[i] = {}
    /\ flist[i] = << >> /\ results[i] = << >>
    /\ \A row \in copy_trades : row.copyTradeId # i

C6_Witness ==
  \E i \in Invocations :
    /\ pc[i] = "done" /\ httpStatus[i] = 400
    /\ req[i].price = 0 /\ req[i].symbol # "" /\ req[i].tradeId # ""

\* ------------------------------------------------------------------------ C7
\* floor(masterQty x lotMultiplier), the multiplier in tenths, clamped to the cap
ScaledQty(masterQty, lotTenths, cap) ==
  LET q == CHOOSE n \in 0..(masterQty * lotTenths) :
             10 * n <= masterQty * lotTenths /\ masterQty * lotTenths < 10 * (n + 1)
  IN  IF q > cap THEN cap ELSE q

HasStoredScaling(row) == row.lot_multiplier > 0 /\ row.max_order_quantity > 0

\* C7: for every follower that reaches quantity computation, followerQty =
\* floor(masterQty x lotMultiplier), replaced by maxOrderQuantity when it
\* exceeds the cap; (10, 0.5, cap 100) gives 5 and (10, 2.0, cap 15) gives 15;
\* the quantity sent to the broker and the quantity recorded equal this value.
C7_ScaledQuantity ==
  /\ ScaledQty(10, 5, 100) = 5
  /\ ScaledQty(10, 20, 15) = 15
  /\ \A i \in Invocations : pc[i] \in {"push", "record"} =>
       LET row == flist[i][idx[i]] IN
       HasStoredScaling(row) =>
         order[i].body.quantity =
           ScaledQty(req[i].masterQty, row.lot_multiplier, row.max_order_quantity)
  /\ \A i \in Invocations : \A k \in 1..Len(results[i]) :
       LET row == flist[i][k]
           e   == results[i][k]
           q   == ScaledQty(req[i].masterQty, row.lot_multiplier, row.max_order_quantity)
       IN  (HasStoredScaling(row) /\ e.status = "SUCCESS") =>
             /\ e.followerQty = q
             /\ \A l \in existingCopy(copied_trade_history, req[i].tradeId, row.id) :
                  l.follower_qty = q
             /\ CopyTradeRow(i, row.id, q, "SUCCESS") \in copy_trades

\* the clamp in action: master quantity 10, multiplier 2.0, cap 15, recorded as 15
C7_Witness ==
  \E i \in Invocations : \E k \in 1..Len(results[i]) :
    /\ req[i].masterQty = 10
    /\ flist[i][k].lot_multiplier = 20 /\ flist[i][k].max_order_quantity = 15
    /\ results[i][k].status = "SUCCESS" /\ results[i][k].followerQty = 15

\* ------------------------------------------------------------------------ C8
\* the multiplier of a row, 1.0 when none is stored
LotOf(row) == IF row.lot_multiplier = 0 THEN 10 ELSE row.lot_multiplier

\* C8: when the scaled quantity for a follower is 0 the follower is reported
\* SKIPPED (quantity too small), no broker call is made and no store is
\* written for that follower; repeating the same fan-out gives the same
\* SKIPPED result again.
C8_ZeroQuantitySkipped ==
  /\ \A i \in Invocations : \A k \in 1..Len(results[i]) :
       LET row == flist[i][k]
           e   == results[i][k]
       IN  (req[i].masterQty * LotOf(row) < 10) =>
             /\ e.status = "SKIPPED"
             /\ e.reason = "quantity too small" \/ KeyCount(req[i].tradeId, row.id) >= 1
             /\ row.id \notin posted[i]
             /\ \A c \in copy_trades : ~ (c.copyTradeId = i /\ c.follower_id = row.id)
             /\ \A l \in existingCopy(copied_trade_history, req[i].tradeId, row.id) :
                  l.master_qty # req[i].masterQty
  /\ \A i \in Invocations, j \in Invocations : Repeats(i, j) =>
       \A e \in Entries(j) : e.reason = "quantity too small" => e \in Entries(i)

\* master quantity 1, multiplier 0.1: skipped, and skipped again on the repeat
C8_Witness ==
  \E i \in Invocations, j \in Invocations :
    /\ Repeats(i, j) /\ req[j].masterQty = 1
    /\ \E e \in Entries(j) : e.reason = "quantity too small" /\ e \in Entries(i)

\* ------------------------------------------------------------------------ C9
\* C9: fan-out places an order only for followers that are eligible, i.e.
\* status = active and copy trading enabled, in every target-selector mode.
C9_OnlyEligibleFollowers ==
  \A i \in Invocations : \A f \in posted[i] :
    followers[f].status = "active" /\ followers[f].copy_trading_enabled

\* ----------------------------------------------------------------------- C10
\* C10: every order placed for follower F is authenticated only with F's own
\* credentials; the master's or process-wide credentials are never used, also
\* when one of F's credential fields is empty.
C10_OwnCredentialsOnly ==
  \A i \in Invocations : pc[i] \in {"push", "record"} =>
    LET h == order[i].headers
        f == order[i].follower
    IN  /\ h.scheme # "bearer"
        /\ h.key \in {"", OwnKey(f)}
        /\ h.secret \in {"", OwnClient(f)}

\* ---------------------------------------------------------------- C11..C13
\* number of HTTP attempts made so far by the call
Attempts == Len(fwLog)

AllFailed == \A k \in 1..Len(fwLog) : ~ ok(fwLog[k])

RECURSIVE SumSeq(_)
SumSeq(q) == IF q = << >> THEN 0 ELSE q[1] + SumSeq(Tail(q))

\* C11 as stated: with default parameters fetchWithRetry makes at most 3 HTTP
\* attempts, and an endpoint failing every time is called exactly 3 times
\* before the failure is thrown.
C11_AtMostThreeAttempts ==
  (fwRetries = 3 /\ fwBackoff = 500)
    => /\ Attempts <= 3
       /\ fwPc = "thrown" => Attempts = 3

\* C11 amended: with default parameters (retries = 3) fetchWithRetry makes at
\* most 4 HTTP attempts, the first one and 3 retries; the failure is thrown
\* after exactly 4 attempts, all of them failed.
C11_AtMostFourAttempts ==
  (fwRetries = 3 /\ fwBackoff = 500)
    => /\ Attempts <= 4
       /\ fwPc = "thrown" => (Attempts = 4 /\ AllFailed)

C11_Witness ==
  /\ fwRetries = 3 /\ fwBackoff = 500
  /\ fwPc = "thrown"
  /\ Attempts = 4

\* C12: when every attempt fails, the error thrown is the failure of the last
\* attempt; for an HTTP failure its message carries that response's status
\* and the body text read from it; nothing is returned.
C12_LastFailureSurfaced ==
  fwPc = "thrown" =>
    LET last == fwLog[Len(fwLog)]
    IN /\ AllFailed
       /\ last.kind = "response" =>
            fwErr.message = << "HTTP", last.status, IF last.readable THEN last.body ELSE "" >>
       /\ last.kind = "exception" => fwErr.message = << last.name >>
       /\ fwRes = NoResponse

\* the last attempt is an HTTP failure whose status differs from the first one's
C12_Witness ==
  /\ fwPc = "thrown"
  /\ fwLog[1].kind = "response" /\ fwLog[1].status = 500
  /\ fwLog[Len(fwLog)].kind = "response" /\ fwLog[Len(fwLog)].status = 404
  /\ fwLog[Len(fwLog)].readable
  /\ fwErr.message = << "HTTP", 404, "down" >>

\* C13: the wait before the k-th retry is backoff * 2^(k-1), each wait twice
\* the previous one; no wait follows the final attempt; when all attempts fail
\* the elapsed logical time is at least the sum of the waits.
C13_ExponentialBackoff ==
  /\ \A k \in 1..Len(fwWaits) : fwWaits[k] = fwBackoff * 2^(k - 1)
  /\ \A k \in 2..Len(fwWaits) : fwWaits[k] = 2 * fwWaits[k - 1]
  /\ fwPc \in {"thrown", "returned"} => Len(fwWaits) = Attempts - 1
  /\ fwPc \in {"fetching", "waiting"} => Len(fwWaits) = Attempts
  /\ fwPc = "thrown" => fwClock >= SumSeq(fwWaits)

C13_Witness ==
  /\ fwPc = "thrown"
  /\ fwWaits = << 500, 1000, 2000 >>
  /\ fwClock >= 3500

\* ---------------------------------------------------------------- C14..C20
\* the cycles followed so far
Cycles == { ingested[k] : k \in 1..Len(ingested) }

Trades(c) == { c.batch[k] : k \in 1..Len(c.batch) }

\* what the path of cycle c makes of the raw batch source at the time of c
Normalise(c, source) ==
  CASE c.path = "getMasterTrades" -> getMasterTrades(source, serverTz, c.at)
    [] c.path = "getTradesForAccount" -> getTradesForAccount(source, c.endpoint, serverTz, c.at)
    [] c.path = "getOrderHistory" -> getOrderHistory(source, serverTz, c.at)
    [] c.path = "tradeBook" -> tradeBook(source, c.at)
    [] c.path = "tradesTable" ->
         tradesTable(getTradesForAccount(source, c.endpoint, serverTz, c.at), c.at)

\* no candidate time field of raw record d converts
NoUsableTimestamp(d) ==
  \A k \in 1..Len(candidates) :
    d[candidates[k]].form \in {"", "junk"} \/ (d[candidates[k]].form \in {"unix", "unixms"} /\ d[candidates[k]].n <= 0)

\* C14: in getMasterTrades, getTradesForAccount and getOrderHistory a trade
\* made from a raw record without a usable timestamp never carries the
\* wall-clock time of the ingestion.
C14_NoWallClockTimestamp ==
  \A c \in Cycles :
    (/\ c.path \in {"getMasterTrades", "getTradesForAccount", "getOrderHistory"}
     /\ \A k \in 1..Len(payload) : NoUsableTimestamp(payload[k]))
      => \A t \in Trades(c) : t.timestamp # toISOString(c.at)

\* C15: a time field of the form YYYY-MM-DD HH:MM:SS is read as UTC+5:30
\* whatever the server's zone; FillTime "2024-02-10 14:30:45" becomes
\* "2024-02-10T09:00:45.000Z".
C15_IstIsFixedOffset ==
  \A c \in Cycles :
    (/\ c.path \in {"getMasterTrades", "getTradesForAccount", "getOrderHistory"}
     /\ Len(payload) = 1
     /\ payload[1].FillTime.form = "ist")
      => \A t \in Trades(c) :
           LET v == payload[1].FillTime
           IN /\ getTime(t.timestamp) = DateUTC(v.y, v.m, v.d, v.h, v.mi, v.sec) - (5 * 3600 + 30 * 60)
              /\ v = Stamp("ist", 2024, 2, 10, 14, 30, 45, 0)
                   => t.timestamp = Stamp("iso", 2024, 2, 10, 9, 0, 45, 0)

\* C16: a batch returned by getMasterTrades, getTradesForAccount or the
\* trades table holds no two trades with the same identifier, and of the raw
\* records sharing a (vendor) identifier the first one is the one kept.
C16_UniqueFirstKept ==
  \A c \in Cycles :
    c.path \in {"getMasterTrades", "getTradesForAccount", "tradesTable"} =>
      /\ \A i, j \in 1..Len(c.batch) : i < j => c.batch[i].id # c.batch[j].id
      /\ \A t \in Trades(c) :
           t.id.kind = "vendor" =>
             LET alone(k) == Normalise(c, << payload[k] >>)
                 ks == { k \in 1..Len(payload) : alone(k) # << >> /\ alone(k)[1].id = t.id }
             IN ks # {} => t = alone(CHOOSE k \in ks : \A j \in ks : k <= j)[1]

\* C17: the trades returned by normalisation are ordered newest first.
C17_NewestFirst ==
  \A c \in Cycles :
    c.path \in {"getMasterTrades", "getTradesForAccount", "tradesTable"} =>
      \A i, j \in 1..Len(c.batch) :
        i < j => getTime(c.batch[i].timestamp) >= getTime(c.batch[j].timestamp)

\* the transaction code of raw record d, upper-cased
CodeOf(d) == toUpperCase(FirstText(d, << "Trantype", "tranType", "transactionType", "side", "buySell" >>, ""))

\* C18: in getTradesForAccount, getMasterTrades and the trade-book route
\* every trade's side is Buy or Sell: S / SELL in any case give Sell,
\* B / BUY in any case give Buy, any other or missing code gives Buy.
C18_SideIsBuyOrSell ==
  \A c \in Cycles :
    c.path \in {"getMasterTrades", "getTradesForAccount", "tradeBook"} =>
      /\ \A t \in Trades(c) : t.side \in {"Buy", "Sell"}
      /\ Len(payload) = 1 =>
           \A t \in Trades(c) :
             t.side = IF CodeOf(payload[1]) \in {"S", "SELL"} THEN "Sell" ELSE "Buy"

\* C19: a trade's quantity and price are numbers; a raw quantity or price
\* that is missing or not numeric gives 0.
C19_BadNumbersAreZero ==
  \A c \in Cycles :
    c.path \in {"getMasterTrades", "getTradesForAccount"} =>
      /\ \A t \in Trades(c) : ~ t.quantity.nan /\ ~ t.price.nan
      /\ Len(payload) = 1 =>
           \A t \in Trades(c) :
             /\ payload[1].quantity.t \in {"absent", "junk"} => t.quantity = Fin(0)
             /\ (payload[1].price.t \in {"absent", "junk"} /\ payload[1].Prc.t \in {"absent", "junk"})
                  => t.price = Fin(0)

\* C20: the same raw batch ingested twice through the same path gets the
\* same trade identifiers both times.
C20_SameIdEveryCycle ==
  \A c1, c2 \in Cycles :
    (c1.path = c2.path /\ c1.endpoint = c2.endpoint) =>
      /\ Len(c1.batch) = Len(c2.batch)
      /\ \A k \in 1..Len(c1.batch) : c1.batch[k].id = c2.batch[k].id

\* ------------------------------------------------------------------------
\* the fan-out response
\* the invocation queried the followers and found some: it entered the loop
ReachedLoop(i) == Len(flist[i]) > 0

\* the number of result entries of invocation i with one of the statuses
CountStatus(i, statuses) ==
  Cardinality({ k \in 1..Len(results[i]) : results[i][k].status \in statuses })

\* C21: a response of a call that reached the per-follower phase has one
\* result entry per selected follower, in the order of the follower list, and
\* its summary counts the entries per status: successCount + failedCount +
\* skipped = totalFollowers.
C21_OneEntryPerFollower ==
  \A i \in Invocations :
    (pc[i] = "done" /\ ReachedLoop(i)) =>
      /\ Len(results[i]) = Len(flist[i])
      /\ \A k \in 1..Len(flist[i]) : results[i][k].followerId = flist[i][k].id
      /\ summary[i].successCount = CountStatus(i, {"SUCCESS"})
      /\ summary[i].failedCount = CountStatus(i, {"FAILED"})
      /\ summary[i].skippedDuplicateCount = CountStatus(i, {"SKIPPED"})
      /\ summary[i].successCount + summary[i].failedCount
           + summary[i].skippedDuplicateCount = Len(flist[i])

\* C22: a call that passed validation and the follower lookup answers 200 with
\* the per-follower list, whatever the followers' outcomes are.
C22_AlwaysOverallSuccess ==
  \A i \in Invocations :
    (pc[i] = "done" /\ ReachedLoop(i)) => httpStatus[i] = 200

\* C23: an error raised while one follower is processed becomes that
\* follower's FAILED entry; the loop goes on to the remaining followers and the
\* summary is returned.
C23_ErrorStaysInLoop ==
  \A i \in Invocations :
    (ReachedLoop(i) /\ httpStatus[i] = 500) => Len(results[i]) = Len(flist[i])

\* C24: a ledger write for (tradeId, followerId) that meets a record already
\* there under that key reports the follower SKIPPED, not FAILED.
C24_LostRaceIsSkipped ==
  \A i \in Invocations : \A k \in 1..Len(results[i]) :
    results[i][k].reason = "ledger insert failed" => results[i][k].status = "SKIPPED"

\* C25: when the follower lookup fails the call fails as a whole (500): no
\* order is posted to the broker, the ledger is neither read nor written and no
\* outcome record is written for any follower.
C25_LookupFailureFailsCall ==
  \A i \in Invocations :
    "followers_error" \in touched[i] =>
      /\ pc[i] = "done"
      /\ httpStatus[i] = 500
      /\ posted[i] = {}
      /\ results[i] = << >>
      /\ touched[i] \cap {"broker", "ledger_read", "ledger_write", "audit_write"} = {}
      /\ \A row \in copy_trades : row.copyTradeId # i

C25_Witness ==
  \E i \in Invocations :
    /\ "followers_error" \in touched[i]
    /\ httpStatus[i] = 500
    /\ Len(SelectFollowers(req[i], followers)) > 0

\* C27: the ledger record for (tradeId, followerId) exists by the time the
\* broker order call has returned, so that a call stopped at any later point
\* leaves the record for the next invocation to find.
C27_LedgerBeforeBrokerCall ==
  \A i \in Invocations :
    (pc[i] = "record" /\ orderAccepted(orderResponse[i])) =>
      LedgerHasKey(copied_trade_history, req[i].tradeId, order[i].follower)

\* ------------------------------------------------------------------------
\* the priority of the time fields
\* the ISO string that time field f of raw record d converts to in cycle c
Conv(d, f, c) == toISOString(Instant(d[f], serverTz, c.at))

RECURSIVE FirstOf(_, _)
\* the first field of the sequence fields whose value in d converts, "" if none
FirstOf(d, fields) ==
  IF fields = << >> THEN ""
  ELSE IF Parses(d[Head(fields)]) THEN Head(fields)
  ELSE FirstOf(d, Tail(fields))

\* the seven fields as the debug guide orders them, and as the code tries them
GuideOrder ==
  << "exchangeTimestamp", "fillTime", "time", "timestamp", "orderTime", "tradeTime", "executionTime" >>

TriedOrder ==
  << "fillTime", "exchangeTimestamp", "orderTime", "time", "timestamp", "tradeTime", "executionTime" >>

\* the trade of cycle c comes from a raw record whose only converting time
\* fields are among the seven
OnlyTheSeven(d) ==
  \A k \in 1..Len(candidates) :
    Parses(d[candidates[k]]) => \E j \in 1..Len(GuideOrder) : GuideOrder[j] = candidates[k]

FillFields == { "FillTime", "fillTime", "FILL_TIME" }

GenericFields == { "time", "Time", "timestamp", "Timestamp", "tradeTime", "executionTime" }

ExchangeOrderFields == (TimeFields \ { "createdAt" }) \ (FillFields \cup GenericFields)

\* the fields of group that convert in raw record d
Parseable(d, group) == { f \in group : Parses(d[f]) }

\* the group that decides: the first of the three with a converting field
DecidingGroup(d) ==
  IF Parseable(d, FillFields) # {} THEN FillFields
  ELSE IF Parseable(d, ExchangeOrderFields) # {} THEN ExchangeOrderFields
  ELSE GenericFields

Is2xx(r) == r.kind = "response" /\ r.status \in 200..299

\* the attempts so far that did not end in a 2xx response
Failures == { k \in 1..Len(fwLog) : ~ Is2xx(fwLog[k]) }

\* C29: a thrown network exception and a non-2xx response are treated alike:
\* each uses up one attempt and is followed by the same backoff and retry; the
\* first 2xx response is returned at once and no attempt follows it.
C29_FailuresAlike ==
  /\ \A k \in 1..Len(fwLog) :
       Is2xx(fwLog[k]) => (k = Len(fwLog) /\ fwPc = "returned" /\ fwRes = fwLog[k])
  /\ fwPc = "returned" => Is2xx(fwRes)
  /\ fwPc \in {"fetching", "waiting", "returned"} => Len(fwWaits) = Cardinality(Failures)
  /\ fwPc = "thrown" => Len(fwWaits) = Cardinality(Failures) - 1
  /\ fwPc \in {"fetching", "returned", "thrown"} => fwAttempt = Len(fwWaits)
  /\ \A k \in Failures : k <= Len(fwWaits) => fwWaits[k] = fwBackoff * 2^(k - 1)

\* an exception, then a non-2xx response, then a 2xx response
C29_Witness ==
  /\ fwPc = "returned"
  /\ Len(fwLog) = 3
  /\ fwLog[1].kind = "exception"
  /\ fwLog[2].kind = "response" /\ ~ Is2xx(fwLog[2])
  /\ fwWaits = << fwBackoff, 2 * fwBackoff >>

\* C30: provided each fetch settles and each timer fires, a call of
\* fetchWithRetry ends, after at most retries + 1 attempts, by returning a 2xx
\* response or throwing the last failure; the 'Unreachable' throw never runs.
C30_Terminates ==
  /\ (fwPc = "fetching") ~> (fwPc \in {"returned", "thrown"})
  /\ [](Attempts <= fwRetries + 1)
  /\ [](fwPc = "returned" => Is2xx(fwRes))
  /\ [](fwPc = "thrown" => (fwErr = caught(fwLog[Len(fwLog)]) /\ fwErr.message[1] # "Unreachable"))

\* the call returns from its last permitted attempt
C30_Witness ==
  /\ fwPc = "returned"
  /\ Attempts = fwRetries + 1

\* ------------------------------------------------------------------------
\* outcomes, orders and the broker
\* the entry the step appends to the results of invocation i
Pushed(i) == results'[i][Len(results'[i])]

\* C31: a follower's outcome is SUCCESS exactly when the broker response
\* indicates acceptance; then the ledger holds a record with the computed
\* follower quantity and successCount grows by one.  Any other response gives
\* FAILED with a reason, and failedCount grows by one.
C31_SuccessIffAccepted ==
  [][ \A i \in Invocations :
        (pc[i] = "record" /\ pc'[i] # "record") =>
          /\ Len(results'[i]) = Len(results[i]) + 1
          /\ Pushed(i).followerId = order[i].follower
          /\ IF orderAccepted(orderResponse[i])
               THEN /\ Pushed(i).status = "SUCCESS"
                    /\ Pushed(i).followerQty = order[i].body.quantity
                    /\ \E row \in BagToSet(copied_trade_history') :
                         /\ row.master_trade_id = req[i].tradeId
                         /\ row.follower_id = order[i].follower
                         /\ row.follower_qty = order[i].body.quantity
                    /\ summary'[i].successCount = summary[i].successCount + 1
               ELSE /\ Pushed(i).status = "FAILED"
                    /\ Pushed(i).reason # ""
                    /\ summary'[i].failedCount = summary[i].failedCount + 1 ]_vars

\* C33: every order POST that fan-out sends carries a non-empty clientOrderId
\* next to symbol, transaction type, quantity, order type and price.
C33_ClientOrderIdPresent ==
  \A i \in Invocations :
    pc[i] = "push" =>
      /\ order[i].body.symbol # ""
      /\ order[i].body.transactionType \in {"BUY", "SELL"}
      /\ order[i].body.orderType # ""
      /\ order[i].body.clientOrderId # ""

\* C37: a follower reported FAILED by an invocation has no order accepted by
\* the broker in that invocation.
C37_FailedMeansNothingAccepted ==
  \A i \in Invocations : \A k \in 1..Len(results[i]) :
    (/\ results[i][k].status = "FAILED"
     /\ \A j \in Invocations \ {i} :
          req[j].tradeId = req[i].tradeId => results[i][k].followerId \notin posted[j])
      => brokerAccepted[<< req[i].tradeId, results[i][k].followerId >>] = 0

\* C34: with no order endpoint configured pushOrderToAccount throws before
\* any HTTP attempt: no fetch, no backoff wait, and each follower for whom an
\* order was to be placed is reported FAILED.
C34_NoEndpointFailsFast ==
  orderEndpoint = "" =>
    /\ \A k \in TradeIds \X FollowerIds : brokerAccepted[k] = 0
    /\ \A i \in Invocations :
         /\ posted[i] = {}
         /\ "broker" \notin touched[i]
         /\ attempt[i] = 0
         /\ pc[i] \notin {"push", "record"}
         /\ \A k \in 1..Len(results[i]) :
              IF qtyTooSmall(followerQty(req[i].masterQty, flist[i][k]))
                THEN results[i][k].status = "SKIPPED"
                ELSE results[i][k].status = "FAILED" /\ results[i][k].reason = "not configured"

C34_Witness ==
  /\ orderEndpoint = ""
  /\ \E i \in Invocations :
       /\ httpStatus[i] = 200
       /\ \E k \in 1..Len(results[i]) : results[i][k].status = "FAILED"

\* the cap the route applies to the follower of a query row
MaxQtyOf(row) == IF row.max_order_quantity = 0 THEN DefaultMaxQty ELSE row.max_order_quantity

\* C36: every order sent to the broker has an integer quantity q with
\* 1 <= q <= the follower's maximum order quantity.
C36_QuantityInRange ==
  \A i \in Invocations :
    pc[i] = "push" =>
      /\ order[i].body.quantity >= 1
      /\ order[i].body.quantity <= MaxQtyOf(flist[i][idx[i]])

\* ------------------------------------------------------------------------
\* the toggle, the token save and the fan-out together
\* C32: a ledger record, once written, is never updated or deleted by the
\* fan-out, the copy-trading toggle or the token save: the ledger only grows.
C32_LedgerOnlyGrows ==
  [][ \A row \in BagToSet(copied_trade_history) :
        CopiesIn(row, copied_trade_history') >= CopiesIn(row, copied_trade_history) ]_vars

\* two ledger records exist after a toggle and a token save were served
C32_Witness ==
  /\ BagCardinality(copied_trade_history) = 2
  /\ \E a, b \in AdminIds :
       /\ adReq[a].kind = "toggle" /\ adPc[a] = "done" /\ adStatus[a] = 200
       /\ adReq[b].kind = "save" /\ adPc[b] = "done" /\ adStatus[b] = 200

\* C35: a follower whose copy trading was switched off through the toggle
\* before a fan-out started, and is still off, gets no order from that fan-out.
C35_DisabledGetsNoOrder ==
  \A i \in Invocations :
    \A f \in priorDisabled[i] \cap DisabledFollowers : f \notin posted[i]

\* C39: there is at most one follower_consents row per follower, whatever the
\* interleaving of toggle and token-save requests.
C39_OneConsentRow ==
  \A f \in FollowerIds :
    /\ Cardinality(existingConsent(follower_consents, f)) <= 1
    /\ \A row \in existingConsent(follower_consents, f) : follower_consents[row] <= 1

\* ------------------------------------------------------------------------
\* getTradesForAccount
\* C38: getTradesForAccount never throws.  Without a stored token it returns
\* an empty list and makes no HTTP call; when the order-book fetch fails it
\* tries the trades endpoint next, and when that fails too it returns an
\* empty list.
C38_NeverThrows ==
  /\ gtPc # "thrown"
  /\ (gtPc # "idle" /\ getAccountToken(resolveAccount(gtAccount)) = "") =>
       (gtPc = "returned" /\ gtOut = << >> /\ gtCalls = << >> /\ fwLog = << >> /\ fwPc = "idle")
  /\ Len(gtCalls) <= 2
  /\ Len(gtCalls) >= 1 => gtCalls[1].endpoint = "orders"
  /\ (Len(gtCalls) >= 1 /\ gtCalls[1].outcome = "failed") =>
       (Len(gtCalls) = 2 /\ gtCalls[2].endpoint = "trades")
  /\ Len(gtCalls) = 2 => gtCalls[1].outcome = "failed"
  /\ (Len(gtCalls) = 2 /\ gtCalls[2].outcome = "failed") => (gtPc = "returned" /\ gtOut = << >>)

\* both fetches failed on every attempt
C38_Witness ==
  /\ gtPc = "returned"
  /\ Len(gtCalls) = 2
  /\ gtCalls[2].outcome = "failed"
  /\ fwPc = "thrown"
  /\ Len(fwLog) = fwRetries + 1
  /\ payload # << >>

\* ------------------------------------------------------------------------
\* the copy-trade dialog
\* C40: executing the dialog again with the same trade details and the same
\* selected followers sends the same tradeId, and the followers the first
\* execution copied to get no second order.
C40_RepeatIsSkipped ==
  \A i, j \in Invocations :
    (j \in priorDone[i] /\ pc[i] = "done") =>
      /\ req[i].tradeId = req[j].tradeId
      /\ \A k \in 1..Len(results[j]) :
           results[j][k].status = "SUCCESS" => results[j][k].followerId \notin posted[i]

====
